---------------------------- MODULE Spec2Model ----------------------------
(* A model of paulstuart/sqlite-util (package sqlite, lite.go):             *)
(*   - Server: the readers-writer broker around one database handle;        *)
(*   - the process-wide connection registry (register / registered);        *)
(*   - sqlInit: first-wins driver initialisation and its connect hook;      *)
(*   - open: the path handling in front of sql.Open.                        *)
EXTENDS Integers, Sequences, FiniteSets, TLC

(***************************************************************************)
(* Bounds of the model.                                                    *)
(***************************************************************************)
\* tasks calling into one Server
NTasks == 3
\* rows the table can hold: a further insert fails
MaxRows == 2
\* native connection handles
NConns == 2
\* calls of register in one run
MaxRegs == 3
\* pages (one row each) a database can hold
MaxPages == 2
\* the largest page step handed to backup
MaxStep == 2
\* pieces a buffer handed to Commands is made of
MaxPieces == 3
\* calls of Close in one run
MaxCloses == 1

VARIABLES
    \* ---- Server (lite.go 498-521) ----
    pc,        \* position of each task inside Exec / Stream
    mu,        \* Server.mu, the sync.RWMutex
    result,    \* error value of the task's call in progress
    returned,  \* error value the most recent return handed to its caller
    rows,      \* rows of the table behind Server.db
    okExecs,   \* Exec calls that returned a nil error
    \* ---- the pool of Server.db and the registry mutex (lite.go 23) ----
    rmu,       \* rmu: the task inside register, NoTask when free
    idle,      \* free physical connections in the pool of Server.db
    physical,  \* physical connections the pool has established
    held,      \* what each task has of the pool: none, a connection, or
               \* its place in the connect hook of a connection being made
    \* ---- connQuery (lite.go 362-386) ----
    qpc,       \* position inside connQuery
    qarg,      \* what the call meets: the query's outcome, its rows, the
               \* row at which rows.Next fails, the index fn fails at
    qcalls,    \* the calls of fn so far: column names, index, row
    qfetched,  \* rows that rows.Next has delivered
    qcnt,      \* cnt
    qerr,      \* err
    qret,      \* the error connQuery returned
    qclosed,   \* calls of rows.Close
    \* ---- Commands (lite.go 289-360) ----
    carg,      \* the latest call of Commands: buffer, echo, the database
    cret,      \* the error it returned
    cout,      \* what it submitted to the database and wrote, in order
    ctrigger,  \* its local variable trigger when it returned
    \* ---- Open (lite.go 453-496) ----
    lastOpen,  \* the latest call of Open that keeps a record: its
               \* arguments, what it found and what it returned
    \* ---- connection registry (lite.go 82, 89-103) ----
    registry,  \* registry: absolute path -> native connection
    regCalls,  \* calls of register so far
    lastReg,   \* arguments of the latest call of register
    before,    \* the registry as the latest call of register found it
    found,     \* argument and result of the latest call of registered
    \* ---- driver initialisation and open (lite.go 83, 144-179, 453-496) ----
    initialized, \* initialized: the driver names sqlInit has seen
    sqlDrivers,  \* database/sql's drivers: name -> configuration of its hook
    conns,       \* the physical connections made so far, by handle number
    dirs,        \* the directories that exist
    files,       \* the files that exist
    firstCfg,    \* name -> configuration of the first sqlInit call for it
    later,       \* names that a later sqlInit call gave another configuration
    \* ---- concurrent callers of sqlInit (lite.go 23, 144-179) ----
    ipc,         \* position of each task inside sqlInit
    iarg,        \* driver name and configuration of the task's call
    imu,         \* imu, the sync.Mutex: the task holding it
    regCount,    \* name -> calls of sql.Register made for it
    \* ---- backup (lite.go 214-255) ----
    data,        \* the rows of the database in each file
    bpc,         \* position of the call of backup
    barg,        \* its arguments: source handle, destination name, step;
                 \* and the directories there were when it was called
    destDb,      \* the handle Open(dest) returned, 0 before
    bk,          \* the backup session, once started
    err,         \* the local variable err of backup
    ret,         \* the value the return statement handed over
    defers,      \* the deferred calls, the latest on top
    events,      \* what the call did so far, in order
    \* ---- the SQL functions iptoa and atoip (lite.go 105-137) ----
    ipcalls,     \* the call made: function, argument, result, and the
                 \* result of the other function applied to that
    \* ---- a row callback that calls Exec (lite.go 509-521) ----
    nested,      \* tasks whose Exec was called by the row callback of
                 \* their own Stream
    \* ---- closed handles (lite.go 204-212, 226) ----
    closed,      \* the handles that have been closed
    closes       \* calls of Close so far

serverVars == <<pc, mu, result, returned, rows, okExecs>>

poolVars == <<rmu, idle, physical, held>>

queryVars == <<qpc, qarg, qcalls, qfetched, qcnt, qerr, qret, qclosed>>

cmdVars == <<carg, cret, cout, ctrigger>>

regVars == <<registry, regCalls, lastReg, before, found>>

openVars == <<initialized, sqlDrivers, conns, dirs, files, firstCfg, later>>

initVars == <<ipc, iarg, imu, regCount>>

backupVars == <<data, bpc, barg, destDb, bk, err, ret, defers, events>>

laterVars == <<ipcalls, nested, closed, closes>>

\* what the Server never touches
otherThanServer == <<laterVars, queryVars, cmdVars, poolVars, lastOpen, regVars, openVars, initVars, backupVars>>

vars == <<serverVars, laterVars, queryVars, cmdVars, poolVars, lastOpen, regVars, openVars, initVars, backupVars>>

Tasks == 1..NTasks
NoTask == 0

(***************************************************************************)
(* Server.mu: sync.RWMutex.  w is the task that owns the writer side (it   *)
(* holds the lock or has announced itself and waits for the readers to     *)
(* leave), readers the tasks holding shared access, rwait the readers      *)
(* that arrived while a writer owned the writer side.                      *)
(***************************************************************************)
MuFree == [w |-> NoTask, readers |-> {}, rwait |-> {}]

ServerInit ==
    /\ pc = [t \in Tasks |-> "idle"]
    /\ mu = MuFree
    /\ result = [t \in Tasks |-> "none"]
    /\ returned = "none"
    /\ rows = 0
    /\ okExecs = 0

\* Mutant: Lock never waits for another writer.
CanLock_NoWait(t) == TRUE

\* s.mu.Lock() can take the writer side: no other writer owns it.
CanLock(t) == mu.w = NoTask

\* Mutant: mu is a plain mutex, a reader also waits for other readers.
RLockBlocks_Exclusive(t) == mu.w # NoTask \/ mu.readers # {}

\* Mutant: a reader waits only for a writer that holds the lock, not for
\* one that is still waiting for the readers to leave.
RLockBlocks_WriterHolds(t) == mu.w # NoTask /\ mu.readers = {}

\* s.mu.RLock() has to wait: a writer holds the lock or is waiting for it.
RLockBlocks(t) == mu.w # NoTask

\* Mutant: Exec drops the error of dbutil.Exec.
ExecResult_DropErr(ok) == "ok"

\* The error Exec returns for the outcome of dbutil.Exec.
ExecResult(ok) == IF ok THEN "ok" ELSE "dberr"

\* Mutant: RUnlock is not deferred, it runs on the success path only.
RUnlockReaders_OnSuccess(t) ==
    IF result[t] = "ok" THEN mu.readers \ {t} ELSE mu.readers

\* The readers left holding shared access by the deferred s.mu.RUnlock().
RUnlockReaders(t) == mu.readers \ {t}

\* Mutant: Exec returns without s.mu.Unlock().
UnlockMu_Forgotten(t) == mu

\* The lock after the deferred s.mu.Unlock(): the writer side is free and
\* every reader that waited behind the writer now holds shared access.
UnlockMu(t) == [w |-> NoTask, readers |-> mu.readers \cup mu.rwait, rwait |-> {}]

\* Where Exec returns to: its caller, or the row callback that called it.
AfterExec(t) == IF t \in nested THEN "Callback" ELSE "idle"

\* A task calls Server.Exec.
ExecCall(t) ==
    /\ pc[t] = "idle"
    /\ pc' = [pc EXCEPT ![t] = "Lock"]
    /\ UNCHANGED <<mu, result, returned, rows, okExecs>>
    /\ UNCHANGED otherThanServer

\* s.mu.Lock(): take the writer side, then wait until the readers are gone.
Lock(t) ==
    /\ pc[t] = "Lock"
    /\ CanLock(t)
    /\ mu' = [mu EXCEPT !.w = t]
    /\ pc' = [pc EXCEPT ![t] = IF mu.readers = {} THEN "Exec" ELSE "Drain"]
    /\ UNCHANGED <<result, returned, rows, okExecs>>
    /\ UNCHANGED otherThanServer

\* The last reader left: the waiting writer holds the lock.
LockDrained(t) ==
    /\ pc[t] = "Drain"
    /\ mu.readers = {}
    /\ pc' = [pc EXCEPT ![t] = "Exec"]
    /\ UNCHANGED <<mu, result, returned, rows, okExecs>>
    /\ UNCHANGED otherThanServer

\* dbutil.Exec(s.db, query, args...) returns: the insert is applied or fails.
ExecDb(t) ==
    /\ pc[t] = "Exec"
    /\ \E ok \in BOOLEAN :
          /\ ok => rows < MaxRows
          /\ rows' = IF ok THEN rows + 1 ELSE rows
          /\ result' = [result EXCEPT ![t] = ExecResult(ok)]
    /\ pc' = [pc EXCEPT ![t] = "Unlock"]
    /\ UNCHANGED <<mu, returned, okExecs>>
    /\ UNCHANGED otherThanServer

\* defer s.mu.Unlock(), then Exec returns its result to the caller.
Unlock(t) ==
    /\ pc[t] = "Unlock"
    /\ mu' = UnlockMu(t)
    /\ pc' = [u \in Tasks |-> IF u = t THEN AfterExec(t)
                              ELSE IF u \in UnlockMu(t).readers THEN "Query"
                              ELSE pc[u]]
    /\ okExecs' = IF result[t] = "ok" THEN okExecs + 1 ELSE okExecs
    /\ returned' = result[t]
    /\ result' = [result EXCEPT ![t] = "none"]
    /\ UNCHANGED rows
    /\ UNCHANGED otherThanServer

\* A task calls Server.Stream.
StreamCall(t) ==
    /\ pc[t] = "idle"
    /\ pc' = [pc EXCEPT ![t] = "RLock"]
    /\ UNCHANGED <<mu, result, returned, rows, okExecs>>
    /\ UNCHANGED otherThanServer

\* s.mu.RLock(): shared access at once, or wait behind the writer.
RLock(t) ==
    /\ pc[t] = "RLock"
    /\ IF RLockBlocks(t)
       THEN /\ mu' = [mu EXCEPT !.rwait = @ \cup {t}]
            /\ pc' = [pc EXCEPT ![t] = "RWait"]
       ELSE /\ mu' = [mu EXCEPT !.readers = @ \cup {t}]
            /\ pc' = [pc EXCEPT ![t] = "Query"]
    /\ UNCHANGED <<result, returned, rows, okExecs>>
    /\ UNCHANGED otherThanServer

\* Streamer.Stream runs the query: it fails, or yields no row, or rows for
\* which the callback is invoked.
StreamQuery(t) ==
    /\ pc[t] = "Query"
    /\ \E ok \in BOOLEAN :
          IF ~ok
          THEN /\ result' = [result EXCEPT ![t] = "dberr"]
               /\ pc' = [pc EXCEPT ![t] = "RUnlock"]
          ELSE IF rows = 0
          THEN /\ result' = [result EXCEPT ![t] = "ok"]
               /\ pc' = [pc EXCEPT ![t] = "RUnlock"]
          ELSE /\ pc' = [pc EXCEPT ![t] = "Callback"]
               /\ UNCHANGED result
    /\ UNCHANGED <<mu, returned, rows, okExecs>>
    /\ UNCHANGED otherThanServer

\* The row callback has been invoked for the rows: every call returned nil,
\* or one returned an error, which stops the stream and is its result.
StreamCallback(t) ==
    /\ pc[t] = "Callback"
    /\ \E ok \in BOOLEAN :
          result' = [result EXCEPT ![t] = IF ok THEN "ok" ELSE "cberr"]
    /\ pc' = [pc EXCEPT ![t] = "RUnlock"]
    /\ UNCHANGED <<mu, returned, rows, okExecs>>
    /\ UNCHANGED otherThanServer

\* defer s.mu.RUnlock(), then Stream returns its result to the caller.
RUnlock(t) ==
    /\ pc[t] = "RUnlock"
    /\ mu' = [mu EXCEPT !.readers = RUnlockReaders(t)]
    /\ pc' = [pc EXCEPT ![t] = "idle"]
    /\ returned' = result[t]
    /\ result' = [result EXCEPT ![t] = "none"]
    /\ UNCHANGED <<rows, okExecs>>
    /\ UNCHANGED otherThanServer

ServerNext ==
    \E t \in Tasks :
        \/ ExecCall(t)
        \/ Lock(t)
        \/ LockDrained(t)
        \/ ExecDb(t)
        \/ Unlock(t)
        \/ StreamCall(t)
        \/ RLock(t)
        \/ StreamQuery(t)
        \/ StreamCallback(t)
        \/ RUnlock(t)

\* The row callback of the task's Stream calls Exec on the same Server, in
\* the same task, which still holds the shared access of its Stream.
CallbackExec(t) ==
    /\ pc[t] = "Callback"
    /\ t \notin nested
    /\ pc' = [pc EXCEPT ![t] = "Lock"]
    /\ nested' = nested \cup {t}
    /\ UNCHANGED <<mu, result, returned, rows, okExecs>>
    /\ UNCHANGED <<ipcalls, closed, closes, queryVars, cmdVars, poolVars, lastOpen, regVars, openVars, initVars, backupVars>>

NestedNext ==
    \/ ServerNext
    \/ \E t \in Tasks : CallbackExec(t)

(***************************************************************************)
(* File paths.  A path is its leading "/" (abs) and its elements; the      *)
(* empty string is the relative path without elements.                     *)
(***************************************************************************)
Path(abs, segs) == [abs |-> abs, segs |-> segs]

\* the string ""
EmptyPath == Path(FALSE, <<>>)

\* os.Getwd(): the working directory of the process, "/d"
Wd == Path(TRUE, <<"d">>)

\* The spellings handed to register and registered: "/d/f", "f", "./f",
\* "../d/f", "/d/./f", "/../d/f", "/d/g", "g", "/d" and "".
Spellings ==
    { Path(TRUE, <<"d", "f">>), Path(FALSE, <<"f">>), Path(FALSE, <<".", "f">>),
      Path(FALSE, <<"..", "d", "f">>), Path(TRUE, <<"d", ".", "f">>),
      Path(TRUE, <<"..", "d", "f">>), Path(TRUE, <<"d", "g">>),
      Path(FALSE, <<"g">>), Path(TRUE, <<"d">>), EmptyPath }

\* filepath.Clean on the elements: "." is dropped, ".." removes the element
\* before it, is dropped at the root and kept at the start of a relative path.
RECURSIVE CleanSegs(_, _, _)
CleanSegs(segs, acc, rooted) ==
    IF segs = <<>> THEN acc
    ELSE LET s == Head(segs)
             rest == Tail(segs)
         IN  IF s = "." THEN CleanSegs(rest, acc, rooted)
             ELSE IF s = ".."
             THEN IF acc # <<>> /\ acc[Len(acc)] # ".."
                  THEN CleanSegs(rest, SubSeq(acc, 1, Len(acc) - 1), rooted)
                  ELSE IF rooted THEN CleanSegs(rest, acc, rooted)
                  ELSE CleanSegs(rest, Append(acc, ".."), rooted)
             ELSE CleanSegs(rest, Append(acc, s), rooted)

\* filepath.Clean: the shortest equivalent path; "." for an empty result.
Clean(p) ==
    LET c == CleanSegs(p.segs, <<>>, p.abs)
    IN  IF ~p.abs /\ c = <<>> THEN Path(FALSE, <<".">>) ELSE Path(p.abs, c)

\* filepath.Join(dir, p): empty elements are ignored, the result is cleaned.
Join(dir, p) == Clean(Path(dir.abs, dir.segs \o p.segs))

\* filepath.Abs(p): an absolute path is cleaned, a relative one is joined
\* to the working directory; when os.Getwd fails (wdOk is false) the result
\* is "" and an error, which register drops.
Abs(p, wdOk) ==
    IF p.abs THEN Clean(p)
    ELSE IF wdOk THEN Join(Wd, p) ELSE EmptyPath

(***************************************************************************)
(* The connection registry.                                                *)
(***************************************************************************)
Conns == 1..NConns
\* the nil *sqlite3.SQLiteConn
Nil == 0

RegistryInit ==
    /\ registry = << >>
    /\ regCalls = 0
    /\ lastReg = << >>
    /\ before = << >>
    /\ found = << >>

\* Mutant: register stores the connection under the path as given.
register_NoAbs(file, conn, wdOk) ==
    IF file # EmptyPath THEN (file :> conn) @@ registry ELSE registry

\* The registry after register(file, conn).
register(file, conn, wdOk) ==
    LET abs == Abs(file, wdOk)
    IN  IF abs # EmptyPath THEN (abs :> conn) @@ registry ELSE registry

\* registered(file): registry[file], nil for a key that is not in the map.
registered(file) ==
    IF file \in DOMAIN registry THEN registry[file] ELSE Nil

\* A call of register.
Register(file, conn, wdOk) ==
    /\ regCalls < MaxRegs
    /\ registry' = register(file, conn, wdOk)
    /\ regCalls' = regCalls + 1
    /\ lastReg' = <<[file |-> file, conn |-> conn, wdOk |-> wdOk]>>
    /\ before' = registry
    /\ UNCHANGED found
    /\ UNCHANGED <<serverVars, laterVars, queryVars, cmdVars, poolVars, lastOpen, openVars, initVars, backupVars>>

\* A call of registered.
Registered(file) ==
    /\ found' = <<[file |-> file, conn |-> registered(file)]>>
    /\ UNCHANGED <<registry, regCalls, lastReg, before>>
    /\ UNCHANGED <<serverVars, laterVars, queryVars, cmdVars, poolVars, lastOpen, openVars, initVars, backupVars>>

RegistryNext ==
    \/ \E file \in Spellings, conn \in Conns, wdOk \in BOOLEAN :
          Register(file, conn, wdOk)
    \/ \E file \in Spellings : Registered(file)

(***************************************************************************)
(* sqlInit and the connect hook.  A configuration is what one call of      *)
(* sqlInit captures in the hook: the startup query, the user hook and the  *)
(* custom functions.                                                       *)
(***************************************************************************)
Cfg(query, hook, funcs) == [query |-> query, hook |-> hook, funcs |-> funcs]

\* NoHook is the nil Hook.
NoHook == "nil"

\* conn.RegisterFunc fails for an implementation it cannot bind.
FuncOk(fn) == fn # "badfunc"
\* conn.Exec of the startup query fails for a statement that is no SQL.
QueryOk(query) == query # "bad sql"
\* the error a user hook returns
HookOk(hook) == hook # "badhook"

Step(op, arg, ok) == [op |-> op, arg |-> arg, ok |-> ok]

\* Mutant: the error of a step is not looked at.
Failed_Never(steps) == FALSE

\* the hook stopped with an error at its last step
Failed(steps) == steps # << >> /\ ~steps[Len(steps)].ok

\* Mutant: the loop over funcs goes on after a failure.
RegisterFuncs_KeepGoing(funcs) ==
    [k \in 1..Len(funcs) |-> Step("func", funcs[k], FuncOk(funcs[k]))]

\* the loop over funcs: conn.RegisterFunc for each, stopping at a failure
RECURSIVE RegisterFuncs(_)
RegisterFuncs(funcs) ==
    IF funcs = << >> THEN << >>
    ELSE IF ~FuncOk(Head(funcs)) THEN <<Step("func", Head(funcs), FALSE)>>
    ELSE <<Step("func", Head(funcs), TRUE)>> \o RegisterFuncs(Tail(funcs))

\* Mutant: the startup query runs before the file name is resolved and
\* the connection registered.
ConnectHook_QueryFirst(cfg, pathOk) ==
    LET s1 == RegisterFuncs(cfg.funcs)
        s2 == IF cfg.query # ""
              THEN Append(s1, Step("query", cfg.query, QueryOk(cfg.query)))
              ELSE s1
        s3 == Append(s2, Step("filename", "", pathOk))
        s4 == Append(s3, Step("register", "", TRUE))
        s5 == IF cfg.hook # NoHook
              THEN Append(s4, Step("hook", cfg.hook, HookOk(cfg.hook)))
              ELSE s4
    IN  IF Failed(s1) THEN s1
        ELSE IF Failed(s2) THEN s2
        ELSE IF Failed(s3) THEN s3
        ELSE s5

\* Mutant: the error of the user hook is dropped.
ConnectHook_HookErrorDropped(cfg, pathOk) ==
    LET s1 == RegisterFuncs(cfg.funcs)
        s2 == Append(s1, Step("filename", "", pathOk))
        s3 == Append(s2, Step("register", "", TRUE))
        s4 == IF cfg.query # ""
              THEN Append(s3, Step("query", cfg.query, QueryOk(cfg.query)))
              ELSE s3
        s5 == IF cfg.hook # NoHook
              THEN Append(s4, Step("hook", cfg.hook, TRUE))
              ELSE s4
    IN  IF Failed(s1) THEN s1
        ELSE IF Failed(s2) THEN s2
        ELSE IF Failed(s4) THEN s4
        ELSE s5

\* ConnectHook: the steps it performs for a configuration, in order, up to
\* and including the first that fails.  pathOk: connFilename succeeded.
ConnectHook(cfg, pathOk) ==
    LET s1 == RegisterFuncs(cfg.funcs)
        s2 == Append(s1, Step("filename", "", pathOk))
        s3 == Append(s2, Step("register", "", TRUE))
        s4 == IF cfg.query # ""
              THEN Append(s3, Step("query", cfg.query, QueryOk(cfg.query)))
              ELSE s3
        s5 == IF cfg.hook # NoHook
              THEN Append(s4, Step("hook", cfg.hook, HookOk(cfg.hook)))
              ELSE s4
    IN  IF Failed(s1) THEN s1
        ELSE IF Failed(s2) THEN s2
        ELSE IF Failed(s4) THEN s4
        ELSE s5

\* Mutant: the registry is written only for a hook that went through.
Registers_OnSuccess(steps) ==
    /\ \E i \in 1..Len(steps) : steps[i].op = "register"
    /\ \A i \in 1..Len(steps) : steps[i].ok

\* the hook got as far as register(filename, conn)
Registers(steps) == \E i \in 1..Len(steps) : steps[i].op = "register"

\* Mutant: a later sqlInit replaces the configuration of the driver.
sqlInit_LastWins(name, cfg) == (name :> cfg) @@ sqlDrivers

\* sqlInit: database/sql's drivers after sqlInit(name, query, hook, funcs):
\* a name in initialized is left alone, a new one is registered.
sqlInit(name, cfg) ==
    IF name \in initialized THEN sqlDrivers ELSE (name :> cfg) @@ sqlDrivers

\* the bookkeeping of a call of sqlInit: the first configuration given for
\* a name, and the names that were later given another one
FirstCfg(name, cfg) ==
    IF name \in DOMAIN firstCfg THEN firstCfg ELSE (name :> cfg) @@ firstCfg
Later(name, cfg) ==
    IF name \in DOMAIN firstCfg /\ firstCfg[name] # cfg
    THEN later \cup {name} ELSE later

\* A direct call sqlInit(name, query, hook, funcs...).
SqlInit(name, cfg) ==
    /\ initialized' = initialized \cup {name}
    /\ sqlDrivers' = sqlInit(name, cfg)
    /\ firstCfg' = FirstCfg(name, cfg)
    /\ later' = Later(name, cfg)
    /\ UNCHANGED <<conns, dirs, files>>
    /\ UNCHANGED <<serverVars, laterVars, queryVars, cmdVars, poolVars, lastOpen, regVars, initVars, backupVars>>

(***************************************************************************)
(* Open.  A data source name is "file:" (uri), "//" (slashes), a path or   *)
(* ":memory:" (mem), and "?cache=shared" (opts), each part optional.       *)
(***************************************************************************)
Dsn(uri, slashes, path, mem, opts) ==
    [uri |-> uri, slashes |-> slashes, path |-> path, mem |-> mem, opts |-> opts]

\* Config as Open builds it from its options (WithExists, WithQuery,
\* WithDriver, WithHook, WithFunctions); without WithDriver the name is "".
Opts(fail, driver, cfg) == [fail |-> fail, driver |-> driver, cfg |-> cfg]

\* the root directory "/"
Root == Path(TRUE, << >>)

\* all but the last element
Front(segs) == IF segs = << >> THEN << >> ELSE SubSeq(segs, 1, Len(segs) - 1)

\* path.Dir(filename)
Dir(p) == Clean(Path(p.abs, Front(p.segs)))

\* the file or directory a path names for the operating system
Target(p) == Abs(p, TRUE)

\* Mutant: WithExists is ignored, the file is created when it is missing.
openFile_Create(dsn, fail) ==
    LET dir == Target(Dir(dsn.path))
        parent == Path(TRUE, Front(dir.segs))
        mkdir == dir \notin dirs
        dirs1 == IF mkdir /\ parent \in dirs THEN dirs \cup {dir} ELSE dirs
        this == Target(dsn.path)
    IN  IF dsn.mem THEN [ok |-> TRUE, dirs |-> dirs, files |-> files]
        ELSE IF mkdir /\ parent \notin dirs
        THEN [ok |-> FALSE, dirs |-> dirs, files |-> files]
        ELSE IF this \in dirs1
        THEN [ok |-> FALSE, dirs |-> dirs1, files |-> files]
        ELSE [ok |-> TRUE, dirs |-> dirs1, files |-> files \cup {this}]

\* Mutant: the directories of the file are made with os.MkdirAll.
openFile_MkdirAll(dsn, fail) ==
    LET dir == Target(Dir(dsn.path))
        dirs1 == dirs \cup {dir, Path(TRUE, Front(dir.segs))}
        this == Target(dsn.path)
    IN  IF dsn.mem THEN [ok |-> TRUE, dirs |-> dirs, files |-> files]
        ELSE IF ~fail
        THEN [ok |-> this \notin dirs1, dirs |-> dirs1,
              files |-> IF this \in dirs1 THEN files ELSE files \cup {this}]
        ELSE [ok |-> this \in files \cup dirs1, dirs |-> dirs1, files |-> files]

\* open, lines 458-481: strings.Contains(file, ":memory:") skips the file
\* handling; otherwise the name is stripped of "file:", "//" and "?...",
\* its directory is made if it is missing, and the file is created (or,
\* with fail, required to exist).  The result: ok and the directories and
\* files afterwards.
openFile(dsn, fail) ==
    LET filename == dsn.path
        dir == Target(Dir(filename))
        parent == Path(TRUE, Front(dir.segs))
        mkdir == dir \notin dirs
        dirs1 == IF mkdir /\ parent \in dirs THEN dirs \cup {dir} ELSE dirs
        this == Target(filename)
    IN  IF dsn.mem THEN [ok |-> TRUE, dirs |-> dirs, files |-> files]
        ELSE IF mkdir /\ parent \notin dirs
        THEN [ok |-> FALSE, dirs |-> dirs, files |-> files]
        ELSE IF ~fail
        THEN IF this \in dirs1
             THEN [ok |-> FALSE, dirs |-> dirs1, files |-> files]
             ELSE [ok |-> TRUE, dirs |-> dirs1, files |-> files \cup {this}]
        ELSE [ok |-> this \in files \cup dirs1, dirs |-> dirs1, files |-> files]

\* What the engine makes of the name when the connection is opened: the
\* database is in memory (its file name is ""), or the uri names a host
\* ("file://f": an error), or it is the file at the absolute path.
SqliteOpen(dsn, ds) ==
    LET this == Target(dsn.path)
    IN  IF dsn.mem THEN [ok |-> TRUE, file |-> EmptyPath]
        ELSE IF dsn.uri /\ dsn.slashes /\ ~dsn.path.abs
        THEN [ok |-> FALSE, file |-> EmptyPath]
        ELSE IF this \in ds \/ Path(TRUE, Front(this.segs)) \notin ds
        THEN [ok |-> FALSE, file |-> EmptyPath]
        ELSE [ok |-> TRUE, file |-> this]

\* DefaultDriver, line 36
DefaultDriver == "sqlite"

\* the driver name open hands to sqlInit and sql.Open: config.driver.  The
\* config of Open is new(Config) with the options applied, never nil, so
\* the name is "" unless WithDriver gave one; DefaultDriver is for a nil
\* config only.
driverName(o) == o.driver

\* The connections there can be: NConns, and one more for every handle the
\* program has closed with Close.
Capacity == NConns + closes

\* open(file, config): sqlInit, the file handling, sql.Open and db.Ping,
\* which makes the first physical connection and runs the connect hook of
\* the driver on it.
open(dsn, o, pathOk, wdOk) ==
    \E name \in {driverName(o)} :
    \E drivers \in {sqlInit(name, o.cfg)}, fs \in {openFile(dsn, o.fail)} :
    \E db \in {SqliteOpen(dsn, fs.dirs)} :
    \E steps \in {ConnectHook(drivers[name], pathOk)} :
        /\ fs.ok /\ db.ok => Len(conns) < Capacity
        /\ initialized' = initialized \cup {name}
        /\ sqlDrivers' = drivers
        /\ firstCfg' = FirstCfg(name, o.cfg)
        /\ later' = Later(name, o.cfg)
        /\ dirs' = fs.dirs
        /\ IF fs.ok /\ db.ok
           THEN /\ files' = IF dsn.mem THEN fs.files ELSE fs.files \cup {db.file}
                /\ conns' = Append(conns,
                               [dsn |-> dsn, given |-> o.driver,
                                known |-> initialized,
                                driver |-> driverName(o), file |-> db.file,
                                pathOk |-> pathOk, steps |-> steps,
                                failed |-> Failed(steps),
                                re |-> name \in later'])
                /\ registry' = IF Registers(steps)
                               THEN register(db.file, Len(conns) + 1, wdOk)
                               ELSE registry
           ELSE /\ files' = fs.files
                /\ UNCHANGED <<conns, registry>>
        /\ UNCHANGED <<regCalls, lastReg, before, found>>

\* A call Open(file, opts...).
Open(dsn, o, pathOk, wdOk) ==
    /\ open(dsn, o, pathOk, wdOk)
    /\ UNCHANGED <<serverVars, laterVars, queryVars, cmdVars, poolVars, lastOpen, initVars, backupVars>>

\* the error open returns: of the file handling (os.Mkdir, os.OpenFile,
\* os.Stat), or of db.Ping (the engine refuses the name, or the connect
\* hook fails), or nil
openErr(dsn, o, pathOk) ==
    LET fs == openFile(dsn, o.fail)
        db == SqliteOpen(dsn, fs.dirs)
        drivers == sqlInit(driverName(o), o.cfg)
    IN  IF ~fs.ok THEN "file"
        ELSE IF ~db.ok THEN "ping"
        ELSE IF Failed(ConnectHook(drivers[driverName(o)], pathOk)) THEN "ping"
        ELSE "nil"

\* A call Open(file, opts...) of which a record is kept: what the call was
\* given, what it found on disk, in the pool and in the registry, and the
\* error it returned.
OpenCall(dsn, o, pathOk, wdOk) ==
    /\ open(dsn, o, pathOk, wdOk)
    /\ lastOpen' = <<[dsn |-> dsn, fail |-> o.fail, pathOk |-> pathOk,
                      files |-> files, dirs |-> dirs, conns |-> Len(conns),
                      registry |-> registry,
                      err |-> openErr(dsn, o, pathOk)]>>
    /\ UNCHANGED <<serverVars, laterVars, queryVars, cmdVars, poolVars, initVars, backupVars>>

\* The names handed to Open where the file is the subject: "f", "x/f",
\* "x/y/f", "file://f", "/d" and ":memory:".
ExistsDsns ==
    { Dsn(FALSE, FALSE, Path(FALSE, <<"f">>), FALSE, FALSE),
      Dsn(FALSE, FALSE, Path(FALSE, <<"x", "f">>), FALSE, FALSE),
      Dsn(FALSE, FALSE, Path(FALSE, <<"x", "y", "f">>), FALSE, FALSE),
      Dsn(TRUE, TRUE, Path(FALSE, <<"f">>), FALSE, FALSE),
      Dsn(FALSE, FALSE, Path(TRUE, <<"d">>), FALSE, FALSE),
      Dsn(FALSE, FALSE, EmptyPath, TRUE, FALSE) }

ExistsNext ==
    \E dsn \in ExistsDsns, fail \in BOOLEAN, pathOk \in BOOLEAN :
        OpenCall(dsn, Opts(fail, "", Cfg("", NoHook, << >>)), pathOk, TRUE)

OpenInit ==
    /\ lastOpen = << >>
    /\ initialized = {}
    /\ sqlDrivers = << >>
    /\ conns = << >>
    /\ dirs = {Root, Wd}
    /\ files = {}
    /\ firstCfg = << >>
    /\ later = {}

\* The names handed to Open: "/d/f", "f", "./f", "file:f?cache=shared",
\* "file:///d/f", "file://f", "x/f", "x/y/f", ":memory:" and
\* "file::memory:?cache=shared".
OpenDsns ==
    { Dsn(FALSE, FALSE, Path(TRUE, <<"d", "f">>), FALSE, FALSE),
      Dsn(FALSE, FALSE, Path(FALSE, <<"f">>), FALSE, FALSE),
      Dsn(TRUE, FALSE, Path(FALSE, <<"f">>), FALSE, TRUE),
      Dsn(TRUE, TRUE, Path(FALSE, <<"f">>), FALSE, FALSE),
      Dsn(FALSE, FALSE, Path(FALSE, <<"x", "f">>), FALSE, FALSE),
      Dsn(FALSE, FALSE, Path(FALSE, <<"x", "y", "f">>), FALSE, FALSE),
      Dsn(FALSE, FALSE, Path(FALSE, <<".", "f">>), FALSE, FALSE),
      Dsn(TRUE, TRUE, Path(TRUE, <<"d", "f">>), FALSE, FALSE),
      Dsn(FALSE, FALSE, EmptyPath, TRUE, FALSE),
      Dsn(TRUE, FALSE, EmptyPath, TRUE, TRUE) }

\* The options handed to Open with these names: none and WithExists(true).
OpenOpts ==
    { Opts(FALSE, "", Cfg("", NoHook, << >>)),
      Opts(TRUE, "", Cfg("", NoHook, << >>)) }

OpenNext ==
    \E dsn \in OpenDsns, o \in OpenOpts, pathOk \in BOOLEAN :
        Open(dsn, o, pathOk, TRUE)

\* The calls made of sqlInit and Open where the driver is the subject: two
\* driver names, each given configurations that differ in the functions,
\* the startup query and the hook.
DriverNames == {"", "sqlite"}

DriverCfgs ==
    { Cfg("", NoHook, << >>),
      Cfg("create t1", "myhook", <<"iptoa", "atoip">>),
      Cfg("", "badhook", << >>),
      Cfg("create t2", "myhook", <<"iptoa", "badfunc", "atoip">>),
      Cfg("bad sql", "badhook", << >>) }

\* ":memory:", as in the tests of the drivers
DriverDsns == { Dsn(FALSE, FALSE, EmptyPath, TRUE, FALSE) }

DriverNext ==
    \/ \E name \in DriverNames, cfg \in DriverCfgs : SqlInit(name, cfg)
    \/ \E dsn \in DriverDsns, name \in DriverNames, cfg \in DriverCfgs,
          pathOk \in BOOLEAN :
          Open(dsn, Opts(FALSE, name, cfg), pathOk, TRUE)

(***************************************************************************)
(* sqlInit step by step, called by several tasks at once (directly, or as  *)
(* the first statement of open).                                           *)
(***************************************************************************)
InitInit ==
    /\ ipc = [t \in Tasks |-> "idle"]
    /\ iarg = [t \in Tasks |-> << >>]
    /\ imu = NoTask
    /\ regCount = [name \in DriverNames |-> 0]

\* the configurations the concurrent callers give
InitCfgs ==
    { Cfg("", NoHook, << >>),
      Cfg("create t1", NoHook, <<"iptoa", "atoip">>) }

\* Mutant: imu.Lock() does not wait for the holder.
ImuFree_NoWait == TRUE

\* imu.Lock() can return
ImuFree == imu = NoTask

\* the driver name of the task's call
InitName(t) == iarg[t][1].name

\* sqlInit(name, query, hook, funcs...) is called
InitCall(t, name, cfg) ==
    /\ ipc[t] \in {"idle", "returned"}
    /\ ipc' = [ipc EXCEPT ![t] = "Lock"]
    /\ iarg' = [iarg EXCEPT ![t] = <<[name |-> name, cfg |-> cfg]>>]
    /\ UNCHANGED <<imu, regCount>>
    /\ UNCHANGED <<serverVars, laterVars, queryVars, cmdVars, poolVars, lastOpen, regVars, openVars, backupVars>>

\* imu.Lock()
InitLock(t) ==
    /\ ipc[t] = "Lock"
    /\ ImuFree
    /\ imu' = t
    /\ ipc' = [ipc EXCEPT ![t] = "Check"]
    /\ UNCHANGED <<iarg, regCount>>
    /\ UNCHANGED <<serverVars, laterVars, queryVars, cmdVars, poolVars, lastOpen, regVars, openVars, backupVars>>

\* if _, ok := initialized[driverName]; ok { return }
\* initialized[driverName] = struct{}{}
InitCheck(t) ==
    /\ ipc[t] = "Check"
    /\ IF InitName(t) \in initialized
       THEN /\ ipc' = [ipc EXCEPT ![t] = "Unlock"]
            /\ UNCHANGED initialized
       ELSE /\ ipc' = [ipc EXCEPT ![t] = "Register"]
            /\ initialized' = initialized \cup {InitName(t)}
    /\ UNCHANGED <<sqlDrivers, conns, dirs, files, firstCfg, later>>
    /\ UNCHANGED <<iarg, imu, regCount>>
    /\ UNCHANGED <<serverVars, laterVars, queryVars, cmdVars, poolVars, lastOpen, regVars, backupVars>>

\* sql.Register(driverName, drvr)
InitRegister(t) ==
    /\ ipc[t] = "Register"
    /\ sqlDrivers' = (InitName(t) :> iarg[t][1].cfg) @@ sqlDrivers
    /\ regCount' = [regCount EXCEPT ![InitName(t)] = @ + 1]
    /\ ipc' = [ipc EXCEPT ![t] = "Unlock"]
    /\ UNCHANGED <<initialized, conns, dirs, files, firstCfg, later>>
    /\ UNCHANGED <<iarg, imu>>
    /\ UNCHANGED <<serverVars, laterVars, queryVars, cmdVars, poolVars, lastOpen, regVars, backupVars>>

\* the deferred imu.Unlock(), and the return
InitUnlock(t) ==
    /\ ipc[t] = "Unlock"
    /\ imu' = IF imu = t THEN NoTask ELSE imu
    /\ ipc' = [ipc EXCEPT ![t] = "returned"]
    /\ UNCHANGED <<iarg, regCount>>
    /\ UNCHANGED <<serverVars, laterVars, queryVars, cmdVars, poolVars, lastOpen, regVars, openVars, backupVars>>

InitNext ==
    \E t \in Tasks :
        \/ \E name \in DriverNames, cfg \in InitCfgs : InitCall(t, name, cfg)
        \/ InitLock(t)
        \/ InitCheck(t)
        \/ InitRegister(t)
        \/ InitUnlock(t)

(***************************************************************************)
(* backup(db, dest, step, w), statement by statement.  A database is the   *)
(* sequence of its pages, one row to a page.                               *)
(***************************************************************************)
\* no lookup made and no session started yet
NoSession ==
    [looked |-> FALSE, from |-> Nil, to |-> Nil, started |-> FALSE,
     total |-> 0, copied |-> 0, destAtStart |-> << >>]

BackupInit ==
    /\ data = << >>
    /\ bpc = "idle"
    /\ barg = << >>
    /\ destDb = 0
    /\ bk = NoSession
    /\ err = "nil"
    /\ ret = "none"
    /\ defers = << >>
    /\ events = << >>

\* the rows of the database in file p; a file that is new has none
Content(p) == IF p \in DOMAIN data THEN data[p] ELSE << >>

\* function f without the key k
Without(f, k) == [x \in DOMAIN f \ {k} |-> f[x]]

\* Filename(db): the file of "main" in PRAGMA database_list
Filename(h) == conns[h].file

\* the name is a path as the operating system reads it
Plain(dsn) == ~dsn.uri /\ ~dsn.slashes /\ ~dsn.opts /\ ~dsn.mem

\* Config of Open(dest): no option
NoOpts == Opts(FALSE, "", Cfg("", NoHook, << >>))

Event(op, ok) == [op |-> op, ok |-> ok]

\* Mutant: closing a handle takes its connection out of the registry.
AfterClose_Unregister(reg, h) ==
    [p \in {q \in DOMAIN reg : reg[q] # h} |-> reg[p]]

\* The registry after the handle is closed: neither Close nor db.Close nor
\* backup touches it
AfterClose(reg, h) == reg

\* Mutant: a deferred call runs after the ones deferred before it.
Defer_Fifo(stack, f) == Append(stack, f)

\* defer f(): f runs before the calls deferred earlier
Defer(stack, f) == <<f>> \o stack

\* Mutant: bk.Finish is deferred before the error of to.Backup is looked at.
DeferFinish_Always(stack, started) == Defer(stack, "finish")

\* lines 235-244: the return on an error of to.Backup comes before the
\* defer of bk.Finish
DeferFinish(stack, started) ==
    IF started THEN Defer(stack, "finish") ELSE stack

\* Mutant: the result of backup is the named variable err.
ReturnAfterFinish_Named(value, local) == local

\* The result of backup is not named: "return err" hands over the value of
\* err, and what the deferred function assigns to err afterwards does not
\* reach the caller.
ReturnAfterFinish(value, local) == value

\* bk.Step(step) copies up to step pages, and all that remain for a
\* negative step (sqlite3_backup_step)
StepPages(step, remaining) ==
    IF step < 0 \/ remaining < step THEN remaining ELSE step

\* the pages bk.PageCount() and bk.Remaining() report: those of the last
\* step, 0 before the first
PageCount == IF \E k \in 1..Len(events) : events[k].op = "step"
             THEN bk.total ELSE 0

Remaining == IF \E k \in 1..Len(events) : events[k].op = "step"
             THEN bk.total - bk.copied ELSE 0

\* the trace with one more entry
Log(es, e) == Append(es, e)

\* a step that copied nothing, reported neither done nor an error
Idle(e) == e.op = "step" /\ e.ok /\ e.n = 0 /\ ~e.done

\* the trace with one more step; a round that repeats the round before it,
\* both idle, is kept once: a loop that goes round for ever has a finite trace
LogStep(es, e) ==
    IF /\ Len(es) >= 3
       /\ Idle(e)
       /\ es[Len(es) - 1] = e
       /\ es[Len(es) - 2] = es[Len(es)]
    THEN SubSeq(es, 1, Len(es) - 1)
    ELSE Append(es, e)

\* Mutant: the loop goes on after the step that reported done.
Break_OnErrorOnly(done, e) == e # "nil"

\* if done || err != nil { break }
Break(done, e) == done \/ e # "nil"

\* Mutant: the copy is reported done with a page still to copy.
Done_Early(remaining) == remaining <= 1

\* bk.Step reports done when no page remains
Done(remaining) == remaining = 0

\* Rows are written to the database in file p, through a handle or by
\* another process, before backup is called.
Write(p) ==
    /\ bpc = "idle"
    /\ Len(Content(p)) < MaxPages
    /\ files' = files \cup {p}
    /\ data' = (p :> Append(Content(p), <<p.segs, Len(Content(p)) + 1>>)) @@ data
    /\ UNCHANGED <<initialized, sqlDrivers, conns, dirs, firstCfg, later>>
    /\ UNCHANGED <<bpc, barg, destDb, bk, err, ret, defers, events>>
    /\ UNCHANGED <<serverVars, laterVars, queryVars, cmdVars, poolVars, lastOpen, regVars, initVars>>

\* backup(db, dest, step, w) is called on an open handle
BackupCall(db, dest, step) ==
    /\ bpc \in {"idle", "returned"}
    /\ db \in 1..Len(conns)
    /\ ~conns[db].failed
    /\ db \notin closed
    /\ Len(conns) < Capacity
    /\ bpc' = "Remove"
    /\ barg' = [db |-> db, dest |-> dest, step |-> step, dirs |-> dirs]
    /\ destDb' = 0
    /\ bk' = NoSession
    /\ err' = "nil"
    /\ ret' = "none"
    /\ defers' = << >>
    /\ events' = << >>
    /\ UNCHANGED data
    /\ UNCHANGED <<serverVars, laterVars, queryVars, cmdVars, poolVars, lastOpen, regVars, openVars, initVars>>

\* os.Remove(dest): the string is taken as a path, its error is dropped
BackupRemove ==
    /\ bpc = "Remove"
    /\ IF Plain(barg.dest)
       THEN /\ files' = files \ {Target(barg.dest.path)}
            /\ data' = Without(data, Target(barg.dest.path))
       ELSE UNCHANGED <<files, data>>
    /\ bpc' = "Open"
    /\ UNCHANGED <<initialized, sqlDrivers, conns, dirs, firstCfg, later>>
    /\ UNCHANGED <<barg, destDb, bk, err, ret, defers, events>>
    /\ UNCHANGED <<serverVars, laterVars, queryVars, cmdVars, poolVars, lastOpen, regVars, initVars>>

\* destDb, err := Open(dest); if err != nil { return err }
\* defer destDb.Close()
BackupOpen(pathOk) ==
    /\ bpc = "Open"
    /\ open(barg.dest, NoOpts, pathOk, TRUE)
    /\ IF Len(conns') > Len(conns) /\ ~conns'[Len(conns')].failed
       THEN /\ destDb' = Len(conns')
            /\ defers' = Defer(defers, "close")
            /\ events' = Log(events, Event("open", TRUE))
            /\ bpc' = "Ping"
            /\ UNCHANGED <<err, ret>>
       ELSE /\ err' = "open"
            /\ ret' = "open"
            /\ bpc' = "Defers"
            /\ UNCHANGED <<destDb, defers, events>>
    /\ UNCHANGED <<data, barg, bk>>
    /\ UNCHANGED <<serverVars, laterVars, queryVars, cmdVars, poolVars, lastOpen, initVars>>

\* if err = destDb.Ping(); err != nil { return err }
BackupPing(ok) ==
    /\ bpc = "Ping"
    /\ IF ok
       THEN /\ bpc' = "Lookup"
            /\ UNCHANGED <<err, ret>>
       ELSE /\ err' = "ping"
            /\ ret' = "ping"
            /\ bpc' = "Defers"
    /\ UNCHANGED <<data, barg, destDb, bk, defers, events>>
    /\ UNCHANGED <<serverVars, laterVars, queryVars, cmdVars, poolVars, lastOpen, regVars, openVars, initVars>>

\* from := registered(Filename(db)); to := registered(Filename(destDb))
BackupLookup ==
    /\ bpc = "Lookup"
    /\ bk' = [bk EXCEPT !.looked = TRUE,
                        !.from = registered(Filename(barg.db)),
                        !.to = registered(Filename(destDb))]
    /\ bpc' = "Start"
    /\ UNCHANGED <<data, barg, destDb, err, ret, defers, events>>
    /\ UNCHANGED <<serverVars, laterVars, queryVars, cmdVars, poolVars, lastOpen, regVars, openVars, initVars>>

\* Mutant: the engine starts a session of a connection with itself.
Distinct_NotChecked(from, to) == TRUE

\* to.Backup: sqlite3_backup_init wants source and destination to be two
\* connections
Distinct(from, to) == from # to

\* bk, err := to.Backup("main", from, "main"); if err != nil { return err }
\* defer func() { ... bk.Finish() ... }()
\* A nil to or from is dereferenced inside to.Backup: the goroutine
\* panics.  The engine refuses a copy of a connection onto itself.
BackupStart(ok) ==
    /\ bpc = "Start"
    /\ IF bk.from = Nil \/ bk.to = Nil
       THEN /\ bpc' = "panicking"
            /\ UNCHANGED <<bk, err, ret, defers, events>>
       ELSE IF ok /\ Distinct(bk.from, bk.to)
       THEN /\ bk' = [bk EXCEPT !.started = TRUE,
                                !.total = Len(Content(Filename(bk.from))),
                                !.destAtStart = Content(Filename(bk.to))]
            /\ err' = "nil"
            /\ defers' = DeferFinish(defers, TRUE)
            /\ events' = Log(events, Event("start", TRUE))
            /\ bpc' = "Loop"
            /\ UNCHANGED ret
       ELSE /\ err' = "start"
            /\ ret' = "start"
            /\ defers' = DeferFinish(defers, FALSE)
            /\ events' = Log(events, Event("start", FALSE))
            /\ bpc' = "Defers"
            /\ UNCHANGED bk
    /\ UNCHANGED <<data, barg, destDb>>
    /\ UNCHANGED <<serverVars, laterVars, queryVars, cmdVars, poolVars, lastOpen, regVars, openVars, initVars>>

\* the head of the loop: fmt.Fprintf(w, "pagecount: %d remaining: %d\n", ...)
BackupProgress ==
    /\ bpc = "Loop"
    /\ events' = Log(events, [op |-> "progress", ok |-> TRUE,
                              total |-> PageCount, remaining |-> Remaining])
    /\ bpc' = "Step"
    /\ UNCHANGED <<data, barg, destDb, bk, err, ret, defers>>
    /\ UNCHANGED <<serverVars, laterVars, queryVars, cmdVars, poolVars, lastOpen, regVars, openVars, initVars>>

\* the rest of the round: done, err = bk.Step(step); break on done or err;
\* after the loop, return err
BackupStep(ok) ==
    /\ bpc = "Step"
    /\ \E n \in {IF ok THEN StepPages(barg.step, bk.total - bk.copied) ELSE 0} :
       \E done \in {ok /\ Done(bk.total - (bk.copied + n))} :
       \E e \in {IF ok THEN "nil" ELSE "step"} :
          /\ bk' = [bk EXCEPT !.copied = @ + n]
          /\ data' = IF ok
                     THEN (Filename(bk.to) :>
                              SubSeq(Content(Filename(bk.from)), 1, bk.copied + n))
                          @@ data
                     ELSE data
          /\ err' = e
          /\ events' = LogStep(events, [op |-> "step", ok |-> ok, n |-> n,
                                    done |-> done])
          /\ IF Break(done, e)
             THEN ret' = e /\ bpc' = "Defers"
             ELSE bpc' = "Loop" /\ UNCHANGED ret
    /\ UNCHANGED <<barg, destDb, defers>>
    /\ UNCHANGED <<serverVars, laterVars, queryVars, cmdVars, poolVars, lastOpen, regVars, openVars, initVars>>

\* the deferred calls run, the latest first, on a return and on a panic:
\* func() { berr := bk.Finish(); if err != nil { err = berr } }() and
\* destDb.Close()
BackupDeferred(ok) ==
    /\ bpc \in {"Defers", "panicking"}
    /\ defers # << >>
    /\ defers' = Tail(defers)
    /\ IF Head(defers) = "finish"
       THEN /\ events' = Log(events, Event("finish", ok))
            /\ err' = IF err # "nil" THEN (IF ok THEN "nil" ELSE "finish") ELSE err
            /\ ret' = ReturnAfterFinish(ret, err')
            /\ UNCHANGED <<registry, closed>>
       ELSE /\ events' = Log(events, Event("close", TRUE))
            /\ closed' = closed \cup {destDb}
            /\ registry' = AfterClose(registry, destDb)
            /\ UNCHANGED <<err, ret>>
    /\ UNCHANGED <<data, bpc, barg, destDb, bk>>
    /\ UNCHANGED <<regCalls, lastReg, before, found>>
    /\ UNCHANGED <<serverVars, ipcalls, nested, closes, queryVars, cmdVars, poolVars, lastOpen, openVars, initVars>>

\* backup has returned to its caller, or the panic has left it
BackupReturn ==
    /\ bpc \in {"Defers", "panicking"}
    /\ defers = << >>
    /\ bpc' = IF bpc = "Defers" THEN "returned" ELSE "panicked"
    /\ UNCHANGED <<data, barg, destDb, bk, err, ret, defers, events>>
    /\ UNCHANGED <<serverVars, laterVars, queryVars, cmdVars, poolVars, lastOpen, regVars, openVars, initVars>>

\* Close(db): PRAGMA wal_checkpoint(TRUNCATE), whose error is only logged,
\* then db.Close()
CloseCall(h) ==
    /\ bpc \in {"idle", "returned"}
    /\ h \in 1..Len(conns)
    /\ ~conns[h].failed
    /\ h \notin closed
    /\ closes < MaxCloses
    /\ closes' = closes + 1
    /\ closed' = closed \cup {h}
    /\ registry' = AfterClose(registry, h)
    /\ UNCHANGED <<regCalls, lastReg, before, found>>
    /\ UNCHANGED <<serverVars, ipcalls, nested, queryVars, cmdVars, poolVars, lastOpen, openVars, initVars, backupVars>>

\* The databases backed up: "f" and ":memory:".
BackupSources ==
    { Dsn(FALSE, FALSE, Path(FALSE, <<"f">>), FALSE, FALSE),
      Dsn(FALSE, FALSE, EmptyPath, TRUE, FALSE) }

\* The destinations: "g", "file:g?cache=shared", "f", "x/g", "x/y/g",
\* ":memory:".
BackupDests ==
    { Dsn(FALSE, FALSE, Path(FALSE, <<"g">>), FALSE, FALSE),
      Dsn(FALSE, FALSE, Path(FALSE, <<"x", "g">>), FALSE, FALSE),
      Dsn(TRUE, FALSE, Path(FALSE, <<"g">>), FALSE, TRUE),
      Dsn(FALSE, FALSE, Path(FALSE, <<"f">>), FALSE, FALSE),
      Dsn(FALSE, FALSE, Path(FALSE, <<"x", "y", "g">>), FALSE, FALSE),
      Dsn(FALSE, FALSE, EmptyPath, TRUE, FALSE) }

\* the files written before a backup: /d/f and /d/g
WritePaths == { Path(TRUE, <<"d", "f">>), Path(TRUE, <<"d", "g">>) }

\* the page steps handed to backup: negative, zero, and up to MaxStep
Steps == (-1)..MaxStep

BackupNext ==
    \/ \E dsn \in BackupSources : bpc = "idle" /\ Open(dsn, NoOpts, TRUE, TRUE)
    \/ \E p \in WritePaths : Write(p)
    \/ \E db \in Conns, dest \in BackupDests, step \in Steps :
          BackupCall(db, dest, step)
    \/ BackupRemove
    \/ \E pathOk \in BOOLEAN : BackupOpen(pathOk)
    \/ \E ok \in BOOLEAN : BackupPing(ok)
    \/ BackupLookup
    \/ \E ok \in BOOLEAN : BackupStart(ok)
    \/ BackupProgress
    \/ \E ok \in BOOLEAN : BackupStep(ok)
    \/ \E ok \in BOOLEAN : BackupDeferred(ok)
    \/ BackupReturn

\* The programs that close handles: they open "f", write, close, and back
\* up onto "g" or onto "f" itself, all pages at once or a page at a time.
CloseDests ==
    { Dsn(FALSE, FALSE, Path(FALSE, <<"g">>), FALSE, FALSE),
      Dsn(FALSE, FALSE, Path(FALSE, <<"f">>), FALSE, FALSE) }

CloseNext ==
    \/ bpc = "idle" /\ Open(Dsn(FALSE, FALSE, Path(FALSE, <<"f">>), FALSE, FALSE),
                            NoOpts, TRUE, TRUE)
    \/ \E h \in 1..(NConns + MaxCloses) : CloseCall(h)
    \/ \E p \in WritePaths : Write(p)
    \/ \E db \in Conns, dest \in CloseDests, step \in {-1, 1} :
          BackupCall(db, dest, step)
    \/ BackupRemove
    \/ \E pathOk \in BOOLEAN : BackupOpen(pathOk)
    \/ \E ok \in BOOLEAN : BackupPing(ok)
    \/ BackupLookup
    \/ \E ok \in BOOLEAN : BackupStart(ok)
    \/ BackupProgress
    \/ \E ok \in BOOLEAN : BackupStep(ok)
    \/ \E ok \in BOOLEAN : BackupDeferred(ok)
    \/ BackupReturn

(***************************************************************************)
(* Server.db is a database/sql pool.  dbutil.Exec and Streamer.Stream take *)
(* a connection from it in the calling task: a free one, or a new physical *)
(* connection, whose making runs the ConnectHook of sqlInit and with it    *)
(* register, in that same task.                                            *)
(***************************************************************************)
\* NewServer(db) on a handle that has made no connection yet
PoolInit ==
    /\ rmu = NoTask
    /\ idle = 0
    /\ physical = 0
    /\ held = [t \in Tasks |-> "none"]

\* the file of Server.db, "f" in the working directory
ServerFile == Path(FALSE, <<"f">>)

\* the task is inside dbutil.Exec or Streamer.Stream, s.mu held
InDb(t) == pc[t] \in {"Exec", "Query"}

\* the pool hands out a free connection
PoolIdle(t) ==
    /\ InDb(t)
    /\ held[t] = "none"
    /\ idle > 0
    /\ idle' = idle - 1
    /\ held' = [held EXCEPT ![t] = "conn"]
    /\ UNCHANGED <<rmu, physical>>
    /\ UNCHANGED <<serverVars, laterVars, queryVars, cmdVars, lastOpen, regVars, openVars, initVars, backupVars>>

\* no connection is free: the driver opens a new one and calls the
\* ConnectHook, which comes to register(filename, conn)
PoolOpen(t) ==
    /\ InDb(t)
    /\ held[t] = "none"
    /\ idle = 0
    /\ physical' = physical + 1
    /\ held' = [held EXCEPT ![t] = "register"]
    /\ UNCHANGED <<rmu, idle>>
    /\ UNCHANGED <<serverVars, laterVars, queryVars, cmdVars, lastOpen, regVars, openVars, initVars, backupVars>>

\* register: rmu.Lock()
RegisterLock(t) ==
    /\ held[t] = "register"
    /\ rmu = NoTask
    /\ rmu' = t
    /\ held' = [held EXCEPT ![t] = "insert"]
    /\ UNCHANGED <<idle, physical>>
    /\ UNCHANGED <<serverVars, laterVars, queryVars, cmdVars, lastOpen, regVars, openVars, initVars, backupVars>>

\* register: registry[file] = conn; rmu.Unlock(); the rest of the hook
\* takes no lock, and the connection is the task's
RegisterUnlock(t) ==
    /\ held[t] = "insert"
    /\ registry' = register(ServerFile, physical, TRUE)
    /\ rmu' = NoTask
    /\ held' = [held EXCEPT ![t] = "conn"]
    /\ UNCHANGED <<idle, physical>>
    /\ UNCHANGED <<regCalls, lastReg, before, found>>
    /\ UNCHANGED <<serverVars, laterVars, queryVars, cmdVars, lastOpen, openVars, initVars, backupVars>>

\* dbutil.Exec on the connection
PoolExecDb(t) == held[t] = "conn" /\ ExecDb(t)

\* Streamer.Stream's query on the connection
PoolStreamQuery(t) == held[t] = "conn" /\ StreamQuery(t)

\* the statement is done or the rows are closed: the connection goes back
\* to the pool, before the deferred unlock
PoolRelease(t) ==
    /\ pc[t] \in {"Unlock", "RUnlock"}
    /\ held[t] = "conn"
    /\ idle' = idle + 1
    /\ held' = [held EXCEPT ![t] = "none"]
    /\ UNCHANGED <<rmu, physical>>
    /\ UNCHANGED <<serverVars, laterVars, queryVars, cmdVars, lastOpen, regVars, openVars, initVars, backupVars>>

PoolUnlock(t) == held[t] = "none" /\ Unlock(t)

PoolRUnlock(t) == held[t] = "none" /\ RUnlock(t)

PoolNext ==
    \E t \in Tasks :
        \/ ExecCall(t)
        \/ Lock(t)
        \/ LockDrained(t)
        \/ PoolIdle(t)
        \/ PoolOpen(t)
        \/ RegisterLock(t)
        \/ RegisterUnlock(t)
        \/ PoolExecDb(t)
        \/ PoolRelease(t)
        \/ PoolUnlock(t)
        \/ StreamCall(t)
        \/ RLock(t)
        \/ PoolStreamQuery(t)
        \/ StreamCallback(t)
        \/ PoolRUnlock(t)

(***************************************************************************)
(* The three kinds of lock together: tasks that call into the Server       *)
(* (whose pool runs the ConnectHook, and with it register, under s.mu),    *)
(* tasks that call sqlInit, and tasks that call open: sqlInit, then        *)
(* db.Ping(), which makes the first connection of the new handle and runs  *)
(* the ConnectHook in the calling task.  A task is in one call at a time.  *)
(***************************************************************************)
\* Mutant: the connection is made and the hook run from inside sqlInit,
\* before the deferred imu.Unlock().
OpenPing_InsideInit(t) ==
    /\ ipc[t] = "Unlock"
    /\ pc[t] = "idle"
    /\ held[t] = "none"
    /\ physical < MaxRegs
    /\ physical' = physical + 1
    /\ held' = [held EXCEPT ![t] = "register"]
    /\ UNCHANGED <<rmu, idle>>
    /\ UNCHANGED <<serverVars, laterVars, queryVars, cmdVars, lastOpen, regVars, openVars, initVars, backupVars>>

\* open: sqlInit has returned; sql.Open, then db.Ping() makes a connection,
\* whose ConnectHook comes to register(filename, conn)
OpenPing(t) ==
    /\ ipc[t] = "returned"
    /\ pc[t] = "idle"
    /\ held[t] = "none"
    /\ physical < MaxRegs
    /\ ipc' = [ipc EXCEPT ![t] = "Ping"]
    /\ physical' = physical + 1
    /\ held' = [held EXCEPT ![t] = "register"]
    /\ UNCHANGED <<rmu, idle>>
    /\ UNCHANGED <<iarg, imu, regCount>>
    /\ UNCHANGED <<serverVars, laterVars, queryVars, cmdVars, lastOpen, regVars, openVars, backupVars>>

\* open: the hook is through, db.Ping() returns, and open returns the new
\* handle, to which the connection belongs
OpenReturn(t) ==
    /\ ipc[t] = "Ping"
    /\ held[t] = "conn"
    /\ ipc' = [ipc EXCEPT ![t] = "idle"]
    /\ held' = [held EXCEPT ![t] = "none"]
    /\ UNCHANGED <<rmu, idle, physical>>
    /\ UNCHANGED <<iarg, imu, regCount>>
    /\ UNCHANGED <<serverVars, laterVars, queryVars, cmdVars, lastOpen, regVars, openVars, backupVars>>

\* the tasks that call into the Server: all but the last
ServerCallers == 1..(NTasks - 1)

\* the tasks that call sqlInit and open: all but the first
Openers == 2..NTasks

\* a caller of the Server that is in no call of sqlInit or open
NotInOpen(t) == t \in ServerCallers /\ ipc[t] = "idle"

\* a caller of open that is in no call of the Server
NotInServer(t) == t \in Openers /\ pc[t] = "idle" /\ held[t] = "none"

LocksNext ==
    \E t \in Tasks :
        \/ NotInOpen(t) /\ ExecCall(t)
        \/ Lock(t)
        \/ LockDrained(t)
        \/ PoolIdle(t)
        \/ PoolOpen(t)
        \/ RegisterLock(t)
        \/ RegisterUnlock(t)
        \/ PoolExecDb(t)
        \/ PoolRelease(t)
        \/ PoolUnlock(t)
        \/ NotInOpen(t) /\ StreamCall(t)
        \/ RLock(t)
        \/ PoolStreamQuery(t)
        \/ StreamCallback(t)
        \/ PoolRUnlock(t)
        \/ NotInServer(t) /\ InitCall(t, DefaultDriver, Cfg("", NoHook, << >>))
        \/ InitLock(t)
        \/ InitCheck(t)
        \/ InitRegister(t)
        \/ InitUnlock(t)
        \/ OpenPing(t)
        \/ OpenReturn(t)

(***************************************************************************)
(* connQuery: a query on a driver connection, its rows handed to fn.       *)
(***************************************************************************)
QueryInit ==
    /\ qpc = "idle"
    /\ qarg = << >>
    /\ qcalls = << >>
    /\ qfetched = 0
    /\ qcnt = 0
    /\ qerr = "nil"
    /\ qret = "none"
    /\ qclosed = 0

\* no row, no index
Never == -1

\* rows.Columns()
Columns == <<"id", "name">>

\* Mutant: the loop goes on after an error of fn.
FnBreak_Never(e) == FALSE

\* if err = fn(cols, cnt, buffer); err != nil { break }
FnBreak(e) == e # "nil"

\* connQuery is called: the query succeeds or not, has n rows, rows.Next
\* fails at row nextErr (counted from 1) and fn at index fnErr (from 0)
ConnQueryCall(ok, n, nextErr, fnErr) ==
    /\ qpc \in {"idle", "returned"}
    /\ qarg' = [ok |-> ok, n |-> n, nextErr |-> nextErr, fnErr |-> fnErr]
    /\ qpc' = "Query"
    /\ qcalls' = << >>
    /\ qfetched' = 0
    /\ qcnt' = 0
    /\ qerr' = "nil"
    /\ qret' = "none"
    /\ qclosed' = 0
    /\ UNCHANGED <<serverVars, laterVars, cmdVars, poolVars, lastOpen, regVars, openVars, initVars, backupVars>>

\* rows, err := conn.Query(query, args); on an error return err; else
\* defer rows.Close(), cols := rows.Columns(), cnt := 0
ConnQueryRun ==
    /\ qpc = "Query"
    /\ IF qarg.ok
       THEN qpc' = "Next" /\ UNCHANGED qret
       ELSE qpc' = "returned" /\ qret' = "query"
    /\ UNCHANGED <<qarg, qcalls, qfetched, qcnt, qerr, qclosed>>
    /\ UNCHANGED <<serverVars, laterVars, cmdVars, poolVars, lastOpen, regVars, openVars, initVars, backupVars>>

\* err = rows.Next(buffer): io.EOF after the last row makes err nil and
\* ends the loop, another error ends it as it is
ConnQueryNext ==
    /\ qpc = "Next"
    /\ IF qfetched = qarg.n
       THEN qerr' = "nil" /\ qpc' = "Close" /\ UNCHANGED qfetched
       ELSE IF qfetched + 1 = qarg.nextErr
       THEN qerr' = "next" /\ qpc' = "Close" /\ UNCHANGED qfetched
       ELSE qerr' = "nil" /\ qpc' = "Fn" /\ qfetched' = qfetched + 1
    /\ UNCHANGED <<qarg, qcalls, qcnt, qret, qclosed>>
    /\ UNCHANGED <<serverVars, laterVars, cmdVars, poolVars, lastOpen, regVars, openVars, initVars, backupVars>>

\* err = fn(cols, cnt, buffer); break on an error, else cnt++
ConnQueryFn ==
    /\ qpc = "Fn"
    /\ qcalls' = Append(qcalls, [cols |-> Columns, cnt |-> qcnt, row |-> qfetched])
    /\ \E e \in {IF qcnt = qarg.fnErr THEN "fn" ELSE "nil"} :
          /\ qerr' = e
          /\ IF FnBreak(e)
             THEN qpc' = "Close" /\ UNCHANGED qcnt
             ELSE qpc' = "Next" /\ qcnt' = qcnt + 1
    /\ UNCHANGED <<qarg, qfetched, qret, qclosed>>
    /\ UNCHANGED <<serverVars, laterVars, cmdVars, poolVars, lastOpen, regVars, openVars, initVars, backupVars>>

\* return err, and the deferred rows.Close()
ConnQueryReturn ==
    /\ qpc = "Close"
    /\ qret' = qerr
    /\ qclosed' = qclosed + 1
    /\ qpc' = "returned"
    /\ UNCHANGED <<qarg, qcalls, qfetched, qcnt, qerr>>
    /\ UNCHANGED <<serverVars, laterVars, cmdVars, poolVars, lastOpen, regVars, openVars, initVars, backupVars>>

QueryNext ==
    \/ \E ok \in BOOLEAN, n \in 0..MaxRows, nextErr \in {Never} \cup 1..MaxRows,
          fnErr \in {Never} \cup 0..(MaxRows - 1) :
          ConnQueryCall(ok, n, nextErr, fnErr)
    \/ ConnQueryRun
    \/ ConnQueryNext
    \/ ConnQueryFn
    \/ ConnQueryReturn

(***************************************************************************)
(* Commands.  A text is the sequence of its pieces: "\n", " ", ";", the    *)
(* heads of the dot-directives, and words that stand for the rest (a       *)
(* statement's text without its ";", a file name, an argument).            *)
(***************************************************************************)
\* white space, as strings.TrimSpace sees it
IsSpace(t) == t \in {" ", "\n"}

RECURSIVE TrimLeft(_)
TrimLeft(s) ==
    IF s # << >> /\ IsSpace(Head(s)) THEN TrimLeft(Tail(s)) ELSE s

RECURSIVE TrimRight(_)
TrimRight(s) ==
    IF s # << >> /\ IsSpace(s[Len(s)])
    THEN TrimRight(SubSeq(s, 1, Len(s) - 1))
    ELSE s

\* strings.TrimSpace
TrimSpace(s) == TrimRight(TrimLeft(s))

\* strings.Trim(s, q) for a quote q
RECURSIVE Trim(_, _)
Trim(s, q) ==
    IF s # << >> /\ Head(s) = q THEN Trim(Tail(s), q)
    ELSE IF s # << >> /\ s[Len(s)] = q THEN Trim(SubSeq(s, 1, Len(s) - 1), q)
    ELSE s

\* where ";\n" first occurs in s at or after i, 0 when it does not
RECURSIVE SepAt(_, _)
SepAt(s, i) ==
    IF i >= Len(s) THEN 0
    ELSE IF s[i] = ";" /\ s[i + 1] = "\n" THEN i
    ELSE SepAt(s, i + 1)

\* strings.Split(s, ";\n"): the texts between the separators, the
\* separators dropped; the whole of s when there is none
RECURSIVE Split(_)
Split(s) ==
    LET i == SepAt(s, 1)
    IN  IF i = 0 THEN <<s>>
        ELSE <<SubSeq(s, 1, i - 1)>> \o Split(SubSeq(s, i + 2, Len(s)))

\* strings.HasPrefix(line, ".echo "), ".read ", ".print ": the directive
\* and a blank
HasDirective(line, d) == Len(line) >= 2 /\ line[1] = d /\ line[2] = " "

\* line[6:], line[7:]: what follows the directive and its blank
Rest(line) == SubSeq(line, 3, Len(line))

\* strings.HasPrefix(line, ".tables")
HasTables(line) == line # << >> /\ line[1] = ".tables"

\* startsWith(text, sub) for the words that are looked for: the trimmed
\* text begins with sub, letter case aside
startsWith(text, sub) ==
    LET d == TrimSpace(text)
    IN  Len(d) >= Len(sub) /\ SubSeq(d, 1, Len(sub)) = sub

\* strings.Contains(line, ";")
HasSemicolon(line) == \E i \in 1..Len(line) : line[i] = ";"

\* strconv.ParseBool with its error dropped: true for "true" (and "1", "t",
\* "T", "TRUE", "True"), false for everything else, "on" included
ParseBool(s) == s = <<"true">>

\* the files ioutil.ReadFile finds: "ok.sql" holds "insert;\n" and
\* "bad.sql" a statement the database rejects
Files ==
    (<<"ok.sql">> :> <<"insert", ";", "\n">>)
    @@ (<<"bad.sql">> :> <<"bad", ";", "\n">>)

\* the database rejects the text handed to db.Exec or to the Streamer
Rejected(text) == \E i \in 1..Len(text) : text[i] = "bad"

\* something Commands did: a text submitted to the database (exec, or
\* table for a SELECT), the table list, a line printed, a command echoed
Did(op, text) == [op |-> op, text |-> text]

\* the result of Commands: its error, what it did, its trigger variable
Result(e, out, trigger) == [err |-> e, out |-> out, trigger |-> trigger]

RECURSIVE Commands(_, _, _)
RECURSIVE Lines(_, _, _, _, _, _)

\* File: ioutil.ReadFile, then Commands on what was read
File(db, name, echo) ==
    IF name \in DOMAIN Files
    THEN Commands(db, Files[name], echo)
    ELSE Result("read", << >>, FALSE)

\* what follows the switch for a line: the line joins multiline; a line
\* with a ";" in it waits for the next; else multiline is echoed and
\* submitted, as a SELECT to the Streamer and otherwise to db.Exec, and an
\* error of the database is returned
Submit(db, line, rest, multiline, echo, out) ==
    LET text == IF multiline # << >> THEN multiline \o <<"\n">> \o line ELSE line
        out1 == IF echo THEN Append(out, Did("echo", text)) ELSE out
        out2 == Append(out1, Did(IF startsWith(text, <<"select">>)
                                 THEN "table" ELSE "exec", text))
    IN  IF HasSemicolon(line) THEN Lines(db, rest, text, FALSE, echo, out)
        ELSE IF Rejected(text) THEN Result("query", out2, FALSE)
        ELSE Lines(db, rest, << >>, FALSE, echo, out2)

\* the loop over the lines, one round for the first of them
Lines(db, lines, multiline, trigger, echo, out) ==
    IF lines = << >> THEN Result("nil", out, trigger)
    ELSE
    LET line == TrimSpace(Head(lines))
        rest == Tail(lines)
    IN  IF line = << >> THEN Lines(db, rest, multiline, trigger, echo, out)
        ELSE IF HasDirective(line, ".echo")
        THEN Lines(db, rest, multiline, trigger, ParseBool(Rest(line)), out)
        ELSE IF HasDirective(line, ".read")
        THEN LET r == File(db, TrimSpace(Rest(line)), echo)
             IN  IF r.err # "nil" THEN Result("read file", out \o r.out, trigger)
                 ELSE Lines(db, rest, multiline, trigger, echo, out \o r.out)
        ELSE IF HasDirective(line, ".print")
        THEN Lines(db, rest, multiline, trigger, echo,
                   Append(out, Did("print",
                                   Trim(Trim(TrimSpace(Rest(line)), "\""), "'"))))
        ELSE IF HasTables(line)
        THEN IF db.tablesOk
             THEN Lines(db, rest, multiline, trigger, echo,
                        Append(out, Did("tables", << >>)))
             ELSE Result("table error", out, trigger)
        ELSE IF startsWith(line, <<"CREATE TRIGGER">>)
        THEN Lines(db, rest, line, TRUE, echo, out)
        ELSE IF startsWith(line, <<"END", ";">>)
        THEN Submit(db, multiline \o <<"\n">> \o line, rest, << >>, echo, out)
        ELSE IF trigger
        THEN Lines(db, rest, multiline \o <<"\n">> \o line, trigger, echo, out)
        ELSE Submit(db, line, rest, multiline, echo, out)

\* Commands(db, buffer, echo, w): the buffer (comments there are none in
\* the buffers looked at) is split at ";\n" and the lines gone through
Commands(db, buffer, echo) ==
    Lines(db, Split(buffer), << >>, FALSE, echo, << >>)

\* What the buffers are made of: "create;\n", "select;\n", "insert;" and
\* "bad;" with no newline, "bad;\n", ".tables\n" as in hammerTime,
\* ".print hi;\n", ".echo true;\n", ".read ok.sql;\n", ".read bad.sql;\n",
\* ".read none.sql;\n", and the trigger of TestCommandsTrigger.
Pieces ==
    { <<"create", ";", "\n">>,
      <<"select", ";", "\n">>,
      <<"insert", ";">>,
      <<"bad", ";">>,
      <<"bad", ";", "\n">>,
      <<".tables", "\n">>,
      <<".print", " ", "hi", ";", "\n">>,
      <<".echo", " ", "true", ";", "\n">>,
      <<".read", " ", "ok.sql", ";", "\n">>,
      <<".read", " ", "bad.sql", ";", "\n">>,
      <<".read", " ", "none.sql", ";", "\n">>,
      <<"\n", "CREATE TRIGGER", " ", "\n", "BEGIN", "\n",
        " ", "ins id", ";", "\n", " ", "ins msg", ";", "\n",
        "END", ";", "\n">> }

\* the pieces put together
RECURSIVE Concat(_)
Concat(ps) == IF ps = << >> THEN << >> ELSE Head(ps) \o Concat(Tail(ps))

\* the buffers of up to MaxPieces pieces
Buffers ==
    UNION { { Concat(ps) : ps \in [1..n -> Pieces] } : n \in 1..MaxPieces }

CommandsInit ==
    /\ carg = << >>
    /\ cret = "none"
    /\ cout = << >>
    /\ ctrigger = FALSE

\* Commands is called, on a database on which listTables works or not
CommandsCall(buffer, echo, tablesOk) ==
    /\ cret = "none"
    /\ carg' = [buffer |-> buffer, echo |-> echo, tablesOk |-> tablesOk]
    /\ cret' = "running"
    /\ UNCHANGED <<cout, ctrigger>>
    /\ UNCHANGED <<serverVars, laterVars, queryVars, poolVars, lastOpen, regVars, openVars, initVars, backupVars>>

\* ... and returns
CommandsReturn ==
    /\ cret = "running"
    /\ \E r \in {Commands([tablesOk |-> carg.tablesOk], carg.buffer, carg.echo)} :
          /\ cret' = r.err
          /\ cout' = r.out
          /\ ctrigger' = r.trigger
    /\ UNCHANGED carg
    /\ UNCHANGED <<serverVars, laterVars, queryVars, poolVars, lastOpen, regVars, openVars, initVars, backupVars>>

CommandsNext ==
    \/ \E buffer \in Buffers, echo \in BOOLEAN, tablesOk \in BOOLEAN :
          CommandsCall(buffer, echo, tablesOk)
    \/ CommandsReturn

(***************************************************************************)
(* The IPv4 conversions (lite.go 105-124) and the SQL functions made of    *)
(* them (ipFuncs, 133-137).  A string is a sequence of characters.  An     *)
(* int64 is held in two parts, hi * Half + lo with lo in 0..Half-1 (hi is  *)
(* negative for a negative number), so that values beyond 2^31 can be      *)
(* computed; the inputs below have parts of at most three characters, far  *)
(* from where int64 itself would wrap or strconv.ParseInt would report a   *)
(* range error.                                                            *)
(***************************************************************************)
Half == 256 * 256

Int64(hi, lo) == [hi |-> hi + (lo \div Half), lo |-> lo % Half]

Plus(x, y) == Int64(x.hi + y.hi, x.lo + y.lo)

\* a << k, for a of small magnitude
ShiftLeft(a, k) ==
    IF k >= 16 THEN Int64(a * 2^(k - 16), 0) ELSE Int64(0, a * 2^k)

\* (ip >> k) & 0xFF, for k = 24, 16, 8, 0
Octet_LowSeven(ip, k) ==
    IF k >= 16 THEN (ip.hi \div 2^(k - 16)) % 128 ELSE (ip.lo \div 2^k) % 128

Octet(ip, k) ==
    IF k >= 16 THEN (ip.hi \div 2^(k - 16)) % 256 ELSE (ip.lo \div 2^k) % 256

DigitChars == <<"0", "1", "2", "3", "4", "5", "6", "7", "8", "9">>

IsDigit(c) == \E i \in 1..10 : DigitChars[i] = c

DigitValue(c) == (CHOOSE i \in 1..10 : DigitChars[i] = c) - 1

\* the verb %d of fmt.Sprintf: decimal, no padding, a minus sign if negative
RECURSIVE FormatInt(_)
FormatInt(v) ==
    IF v < 0 THEN <<"-">> \o FormatInt(-v)
    ELSE IF v < 10 THEN <<DigitChars[v + 1]>>
    ELSE FormatInt(v \div 10) \o <<DigitChars[(v % 10) + 1]>>

\* strconv.ParseInt(s, 10, 64): an optional sign, then one digit or more
\* and nothing else; anything else is a syntax error, with value 0
RECURSIVE DigitsValue(_)
DigitsValue(s) ==
    IF s = << >> THEN 0
    ELSE 10 * DigitsValue(SubSeq(s, 1, Len(s) - 1)) + DigitValue(s[Len(s)])

ParseInt(s) ==
    LET signed == Len(s) > 0 /\ s[1] \in {"+", "-"}
        digits == IF signed THEN Tail(s) ELSE s
        ok     == Len(digits) > 0 /\ \A i \in 1..Len(digits) : IsDigit(digits[i])
        v      == IF ok THEN DigitsValue(digits) ELSE 0
    IN  [value |-> IF signed /\ s[1] = "-" THEN -v ELSE v, ok |-> ok]

\* strings.Split(ip, "."): the stretches between the dots, empty ones kept
RECURSIVE SplitDots(_)
SplitDots(s) ==
    IF \A i \in 1..Len(s) : s[i] # "."
    THEN <<s>>
    ELSE LET i == CHOOSE j \in 1..Len(s) :
                     s[j] = "." /\ \A k \in 1..(j - 1) : s[k] # "."
         IN  <<SubSeq(s, 1, i - 1)>> \o SplitDots(SubSeq(s, i + 1, Len(s)))

MinusOne == Int64(-1, Half - 1)

toIPv4(ip) ==
    LET a == Octet(ip, 24)
        b == Octet(ip, 16)
        c == Octet(ip, 8)
        d == Octet(ip, 0)
    IN  FormatInt(a) \o <<".">> \o FormatInt(b) \o <<".">> \o FormatInt(c)
            \o <<".">> \o FormatInt(d)

fromIPv4(ip) ==
    LET octets == SplitDots(ip)
    IN  IF Len(octets) # 4
        THEN MinusOne
        ELSE LET a == ParseInt(octets[1]).value
                 b == ParseInt(octets[2]).value
                 c == ParseInt(octets[3]).value
                 d == ParseInt(octets[4]).value
             IN  Plus(Plus(ShiftLeft(a, 24), ShiftLeft(b, 16)),
                      Plus(ShiftLeft(c, 8), ShiftLeft(d, 0)))

IpInit == ipcalls = << >>

\* select atoip(iptoa(n))
Iptoa(n) ==
    /\ ipcalls = << >>
    /\ \E s \in {toIPv4(n)} :
          ipcalls' = <<[fn |-> "iptoa", arg |-> n, out |-> s, back |-> fromIPv4(s)]>>
    /\ UNCHANGED <<serverVars, nested, closed, closes, queryVars, cmdVars, poolVars, lastOpen, regVars, openVars, initVars, backupVars>>

\* select iptoa(atoip(s))
Atoip(s) ==
    /\ ipcalls = << >>
    /\ \E n \in {fromIPv4(s)} :
          ipcalls' = <<[fn |-> "atoip", arg |-> s, out |-> n, back |-> toIPv4(n)]>>
    /\ UNCHANGED <<serverVars, nested, closed, closes, queryVars, cmdVars, poolVars, lastOpen, regVars, openVars, initVars, backupVars>>

\* halves of the addresses tried: 0.0, 0.1, 1.1, 1.10, 127.0, 192.168, 255.255
Halves == {0, 1, 257, 266, 32512, 49320, 65535}

Addresses == {Int64(hi, lo) : hi \in Halves, lo \in Halves}

\* the texts between the dots: octets as toIPv4 writes them, and others
OctetTexts == {<<"0">>, <<"1">>, <<"1", "0">>, <<"1", "2", "7">>, <<"2", "5", "5">>}

OtherTexts == {<< >>, <<"x">>, <<"0", "1">>, <<"-", "1">>, <<"2", "5", "6">>}

RECURSIVE Dotted(_)
Dotted(parts) ==
    IF Len(parts) = 1 THEN parts[1]
    ELSE parts[1] \o <<".">> \o Dotted(Tail(parts))

IpTexts ==
    {Dotted(p) : p \in UNION {[1..n -> OctetTexts \cup OtherTexts] : n \in 1..4}}
        \cup {Dotted(p) \o <<".", "1">> : p \in [1..4 -> {<<"0">>, <<"2", "5", "5">>}]}

IpNext ==
    \/ \E n \in Addresses : Iptoa(n)
    \/ \E s \in IpTexts : Atoip(s)

Init ==
    /\ ServerInit /\ PoolInit /\ RegistryInit /\ OpenInit /\ InitInit /\ BackupInit
    /\ QueryInit /\ CommandsInit /\ IpInit /\ nested = {} /\ closed = {} /\ closes = 0

Next == ServerNext

Spec == Init /\ [][Next]_vars

SpecRegistry == Init /\ [][RegistryNext]_vars

SpecPool == Init /\ [][PoolNext]_vars

SpecOpen == Init /\ [][OpenNext]_vars

SpecExists == Init /\ [][ExistsNext]_vars

SpecQuery == Init /\ [][QueryNext]_vars

SpecCommands == Init /\ [][CommandsNext]_vars

SpecDriver == Init /\ [][DriverNext]_vars

SpecInit == Init /\ [][InitNext]_vars

SpecBackup == Init /\ [][BackupNext]_vars

SpecIp == Init /\ [][IpNext]_vars

SpecLocks == Init /\ [][LocksNext]_vars

SpecNested == Init /\ [][NestedNext]_vars

SpecClose == Init /\ [][CloseNext]_vars

\* backup under fair scheduling: a call that has been made goes on to its
\* next statement; every call it makes into the engine returns.
FairBackup ==
    /\ Init
    /\ [][BackupNext]_vars
    /\ WF_vars(BackupRemove)
    /\ WF_vars(\E pathOk \in BOOLEAN : BackupOpen(pathOk))
    /\ WF_vars(\E ok \in BOOLEAN : BackupPing(ok))
    /\ WF_vars(BackupLookup)
    /\ WF_vars(\E ok \in BOOLEAN : BackupStart(ok))
    /\ WF_vars(BackupProgress)
    /\ WF_vars(\E ok \in BOOLEAN : BackupStep(ok))
    /\ WF_vars(\E ok \in BOOLEAN : BackupDeferred(ok))
    /\ WF_vars(BackupReturn)

(***************************************************************************)
(* The Server under fair scheduling: every step inside a call is taken     *)
(* once it stays possible (the database call and the row callback          *)
(* terminate), and a task waiting in Lock gets the writer side if it is    *)
(* free again and again (sync.Mutex hands over to a starving waiter).      *)
(* Issuing a call is not forced.                                           *)
(***************************************************************************)
ServerStep(t) ==
    \/ LockDrained(t)
    \/ ExecDb(t)
    \/ Unlock(t)
    \/ RLock(t)
    \/ StreamQuery(t)
    \/ StreamCallback(t)
    \/ RUnlock(t)

FairServer ==
    /\ Init
    /\ [][Next]_vars
    /\ \A t \in Tasks : WF_vars(ServerStep(t)) /\ SF_vars(Lock(t))

(***************************************************************************)
(* Claims about the Server.                                                *)
(***************************************************************************)
\* tasks inside the database call of Exec
InExec == {t \in Tasks : pc[t] = "Exec"}
\* tasks inside the query of Stream (the query or its row callbacks)
InStream == {t \in Tasks : pc[t] \in {"Query", "Callback"}}
\* no call is in progress
Quiescent == \A t \in Tasks : pc[t] = "idle"
\* what a final count query reads
FinalRead == rows

\* C1: at most one Exec is inside its database call at any time, and no
\* Exec is inside its database call while a Stream is inside its query.
C1_WriterExcludesAll ==
    /\ Cardinality(InExec) <= 1
    /\ InExec # {} => InStream = {}

\* an Exec is inside its database call while another Exec and a Stream wait
C1_Witness ==
    \E t, u, v \in Tasks :
        pc[t] = "Exec" /\ pc[u] = "Lock" /\ pc[v] = "RWait"

\* C2: once all calls have returned, the rows a final read sees are exactly
\* the Exec calls that returned without error.
C2_RowsEqualSuccessfulExecs == Quiescent => FinalRead = okExecs

\* all calls returned, two Execs succeeded and the last call failed
C2_Witness ==
    /\ Quiescent
    /\ okExecs >= 2
    /\ returned = "dberr"

\* C3: a call that has returned holds no part of the lock, whatever its
\* result; when every call has returned the lock is free and Lock can be
\* taken.
C3_LockReleasedOnReturn ==
    /\ \A t \in Tasks :
          pc[t] = "idle" =>
              mu.w # t /\ t \notin mu.readers /\ t \notin mu.rwait
    /\ Quiescent => (mu = MuFree /\ \A t \in Tasks : CanLock(t))

\* every call has returned, the last one with the error of its row
\* callback, and the lock is free
C3_Witness ==
    /\ Quiescent
    /\ mu = MuFree
    /\ returned = "cberr"

\* C4: a Stream waits for the lock only while an Exec holds it or waits
\* for it, never because of other Streams alone.
C4_StreamWaitsOnlyForExec ==
    \A t \in Tasks : pc[t] = "RWait" => mu.w # NoTask

\* two Streams are inside their queries at the same time
C4_Witness ==
    \E t, u \in Tasks : t # u /\ {t, u} \subseteq InStream /\ mu.w = NoTask

\* C5: under fair scheduling every issued call returns (no task stays
\* inside a call for ever: it is outside of any call again and again), and
\* the result of
\* a call is nil, a database error or a callback error: there is no result
\* while the call waits for the lock and no error that comes from waiting.
C5_ContentionOnlyDelays ==
    /\ \A t \in Tasks : []<>(pc[t] = "idle")
    /\ [](\A t \in Tasks :
             /\ result[t] \in {"none", "ok", "dberr", "cberr"}
             /\ returned \in {"none", "ok", "dberr", "cberr"}
             /\ pc[t] \in {"Lock", "Drain", "RLock", "RWait"} =>
                    result[t] = "none")

\* an Exec waits for the writer side and a Stream waits behind a writer
C5_Witness ==
    \E t, u, v \in Tasks :
        pc[t] = "Lock" /\ pc[u] = "RWait" /\ pc[v] = "Unlock"

(***************************************************************************)
(* Claims about the registry.                                              *)
(***************************************************************************)
\* the canonical form of a path: its cleaned absolute form
Canon(p) == Abs(p, TRUE)

\* the value of map m at key k, nil when k is not a key
At(m, k) == IF k \in DOMAIN m THEN m[k] ELSE Nil

\* all entries but the one at key k are the same in m and n
SameBut(m, n, k) ==
    \A x \in (DOMAIN m \cup DOMAIN n) \ {k} : At(m, x) = At(n, x)

\* C6 as claimed: every call register(path, conn) leaves the registry
\* mapping the canonical form of path to conn, with all other entries
\* unchanged; it never skips the insert.
C6_RegisterAlwaysInserts ==
    lastReg # << >> =>
        LET r == lastReg[1]
        IN  /\ registered(Canon(r.file)) = r.conn
            /\ SameBut(before, registry, Canon(r.file))

\* C6 amended: register(path, conn) leaves the registry mapping the
\* absolute form of path to conn, replacing an earlier entry and leaving
\* all other entries unchanged, whenever filepath.Abs yields that form (the
\* path is absolute or the working directory is known); when it does not,
\* register skips the insert and leaves the registry as it was.
C6_RegisterInsertsUnlessNoAbs ==
    lastReg # << >> =>
        LET r == lastReg[1]
        IN  IF r.file.abs \/ r.wdOk
            THEN /\ registered(Canon(r.file)) = r.conn
                 /\ SameBut(before, registry, Canon(r.file))
            ELSE registry = before

\* register replaced the entry of another connection, called with a
\* spelling that is not the key, and another entry stayed
C6_Witness ==
    /\ lastReg # << >>
    /\ ~lastReg[1].file.abs
    /\ At(before, Canon(lastReg[1].file)) \notin {Nil, lastReg[1].conn}
    /\ registered(Canon(lastReg[1].file)) = lastReg[1].conn
    /\ Cardinality(DOMAIN registry) >= 2

\* C8 as claimed: a lookup by any spelling of a file returns what is
\* registered for that file (the entry at its canonical form), and nil only
\* when nothing is.
C8_LookupCanonicalizes ==
    found # << >> =>
        found[1].conn = At(registry, Canon(found[1].file))

(***************************************************************************)
(* Claims about Open and the driver.                                       *)
(***************************************************************************)
\* the canonical path of a name handed to Open: the absolute form of its
\* path, and the empty file name for a database in memory
DsnCanon(dsn) == IF dsn.mem THEN EmptyPath ELSE Canon(dsn.path)

\* connection i is that of an Open that returned without error
Opened(i) == i \in 1..Len(conns) /\ ~conns[i].failed

\* The lookup of the canonical path of the name of connection i returns a
\* connection whose database file is that path.
LookupFinds(i) ==
    LET key == DsnCanon(conns[i].dsn)
    IN  /\ Registers(conns[i].steps)
        /\ registered(key) # Nil
        /\ conns[registered(key)].file = key

\* C7 as claimed: after Open(p) succeeded, for every form of p (absolute,
\* relative, file: URI, with a query string, in memory), the connection
\* went through the connect hook and the lookup of the canonical path of p
\* returns a connection whose database file is that path.
C7_OpenedIsRegistered ==
    \A i \in 1..Len(conns) : Opened(i) => LookupFinds(i)

\* What does hold of Open: the same, for the names that are not in memory.
OpenedFileIsRegistered ==
    \A i \in 1..Len(conns) : Opened(i) /\ ~conns[i].dsn.mem => LookupFinds(i)

\* C9: driver initialisation is first-wins per name: the driver of a name
\* keeps the configuration of the first sqlInit for it, and every
\* connection under the name ran the steps of that configuration (its
\* functions, its startup query, its hook) and of no later one.
C9_FirstInitWins ==
    /\ \A name \in DOMAIN firstCfg :
           name \in DOMAIN sqlDrivers /\ sqlDrivers[name] = firstCfg[name]
    /\ \A i \in 1..Len(conns) :
           conns[i].steps = ConnectHook(firstCfg[conns[i].driver], conns[i].pathOk)

\* a connection made after a later sqlInit gave its driver another
\* configuration, and it ran the startup query of the first
C9_Witness ==
    \E i \in 1..Len(conns) :
        /\ conns[i].re
        /\ ~conns[i].failed
        /\ \E k \in 1..Len(conns[i].steps) :
               /\ conns[i].steps[k].op = "query"
               /\ conns[i].steps[k].arg = firstCfg[conns[i].driver].query

\* C10: under any interleaving of concurrent calls of sqlInit, sql.Register
\* is called at most once for a name, exactly once for the name of a call
\* that has returned, and that name is in initialized.
C10_RegisteredOncePerName ==
    /\ \A name \in DriverNames : regCount[name] <= 1
    /\ \A t \in Tasks :
           ipc[t] = "returned" =>
               InitName(t) \in initialized /\ regCount[InitName(t)] = 1

\* three calls for one name at once, with different configurations: one
\* has returned, one holds imu after finding the name initialized, one
\* waits for imu
C10_Witness ==
    \E t, u, v \in Tasks :
        /\ ipc[t] = "returned" /\ ipc[u] = "Unlock" /\ ipc[v] = "Lock"
        /\ imu = u
        /\ InitName(t) = InitName(u) /\ InitName(u) = InitName(v)
        /\ iarg[t][1].cfg # iarg[u][1].cfg
        /\ sqlDrivers[InitName(u)] = iarg[t][1].cfg
        /\ regCount[InitName(t)] = 1

\* the steps of the connect hook as the contract lists them, each an
\* operation and its argument: the functions in their order, the file
\* name, the registry insert, the startup query if there is one, the user
\* hook if there is one
Plan(cfg) ==
    [k \in 1..Len(cfg.funcs) |-> <<"func", cfg.funcs[k]>>]
        \o << <<"filename", "">>, <<"register", "">> >>
        \o (IF cfg.query # "" THEN << <<"query", cfg.query>> >> ELSE << >>)
        \o (IF cfg.hook # NoHook THEN << <<"hook", cfg.hook>> >> ELSE << >>)

\* steps is the plan carried out from its first step, in order, as far as
\* the first step that failed, and to the end when none did
FollowsPlan(steps, cfg) ==
    /\ Len(steps) \in 1..Len(Plan(cfg))
    /\ \A k \in 1..Len(steps) : <<steps[k].op, steps[k].arg>> = Plan(cfg)[k]
    /\ \A k \in 1..(Len(steps) - 1) : steps[k].ok
    /\ steps[Len(steps)].ok => Len(steps) = Len(Plan(cfg))

\* C11: on every new connection the hook performs its steps in the fixed
\* order functions, file name, registry insert, startup query (if not
\* empty), user hook (if configured); a step runs only if every earlier one
\* succeeded, and the result of the last step is the connection result.
C11_HookStepsInOrder ==
    \A i \in 1..Len(conns) :
        /\ FollowsPlan(conns[i].steps, sqlDrivers[conns[i].driver])
        /\ conns[i].failed = ~conns[i].steps[Len(conns[i].steps)].ok

\* a connection that ran all five kinds of step, and one whose hook was
\* stopped by its startup query after the registry insert
C11_Witness ==
    \E i, j \in 1..Len(conns) :
        /\ ~conns[i].failed
        /\ {conns[i].steps[k].op : k \in 1..Len(conns[i].steps)}
               = {"func", "filename", "register", "query", "hook"}
        /\ conns[j].failed
        /\ conns[j].steps[Len(conns[j].steps)].op = "query"

\* the index of the first function of funcs whose registration fails, 0
\* when there is none
FirstBad(funcs) ==
    IF \A k \in 1..Len(funcs) : FuncOk(funcs[k]) THEN 0
    ELSE CHOOSE k \in 1..Len(funcs) :
             ~FuncOk(funcs[k]) /\ \A j \in 1..(k - 1) : FuncOk(funcs[j])

\* the operations the hook performed on connection i
OpsOf(i) == {conns[i].steps[k].op : k \in 1..Len(conns[i].steps)}

\* C12: when registering the b-th function fails on a new connection the
\* hook stops there: its steps are the registrations 1..b and nothing
\* else (no later function, no registry insert, no startup query, no user
\* hook), the registry has no entry for the connection, and the open
\* reports an error.
C12_BadFunctionStopsHook ==
    \A i \in 1..Len(conns) :
        LET funcs == sqlDrivers[conns[i].driver].funcs
            b == FirstBad(funcs)
        IN  b > 0 =>
                /\ Len(conns[i].steps) = b
                /\ \A k \in 1..b :
                       /\ conns[i].steps[k].op = "func"
                       /\ conns[i].steps[k].arg = funcs[k]
                       /\ conns[i].steps[k].ok = (k < b)
                /\ OpsOf(i) = {"func"}
                /\ \A key \in DOMAIN registry : registry[key] # i
                /\ conns[i].failed

\* the second of three functions failed on the second connection, and the
\* registry still has the first connection only
C12_Witness ==
    /\ Len(conns) = 2
    /\ Len(sqlDrivers[conns[2].driver].funcs) = 3
    /\ FirstBad(sqlDrivers[conns[2].driver].funcs) = 2
    /\ conns[2].failed
    /\ ~conns[1].failed
    /\ {registry[key] : key \in DOMAIN registry} = {1}

\* connection i failed inside the hook: one of its steps returned an error
HookFailed(i) == \E k \in 1..Len(conns[i].steps) : ~conns[i].steps[k].ok

\* the hook of connection j started at the first step of its plan
FromFirstStep(j) ==
    /\ FollowsPlan(conns[j].steps, sqlDrivers[conns[j].driver])
    /\ <<conns[j].steps[1].op, conns[j].steps[1].arg>>
           = Plan(sqlDrivers[conns[j].driver])[1]

\* the Open that made the newest connection left initialized as sqlInit
\* set it: its failing hook took no name out and put none in
FailureKeepsInitialized ==
    LET c == conns'[Len(conns')]
    IN  (/\ Len(conns') = Len(conns) + 1
         /\ \E k \in 1..Len(c.steps) : ~c.steps[k].ok)
            => initialized' = initialized \cup {c.driver}

\* C13: when a connection attempt fails inside the connect hook (function
\* registration, file name, startup query or user hook) Open returns the
\* error, the driver name stays in initialized and the set is otherwise
\* unchanged, and every later connection under that name runs the hook
\* from its first step again.
C13_HookFailureReachesCaller ==
    /\ [](\A i \in 1..Len(conns) :
             HookFailed(i) =>
                 /\ conns[i].failed
                 /\ conns[i].driver \in initialized
                 /\ \A j \in (i + 1)..Len(conns) :
                        conns[j].driver = conns[i].driver => FromFirstStep(j))
    /\ [][FailureKeepsInitialized]_vars

\* under one driver name a connection failed in the hook at the file name
\* and the next one ran the whole hook
C13_Witness ==
    /\ Len(conns) = 2
    /\ conns[1].driver = conns[2].driver
    /\ HookFailed(1)
    /\ conns[1].steps[Len(conns[1].steps)].op = "filename"
    /\ ~HookFailed(2)
    /\ Len(conns[2].steps) >= 4

(***************************************************************************)
(* Claims about backup.                                                    *)
(***************************************************************************)
\* the call did op with the outcome ok
Happened(op, ok) ==
    \E k \in 1..Len(events) : events[k].op = op /\ events[k].ok = ok

\* how often the call did op
Count(op) == Cardinality({k \in 1..Len(events) : events[k].op = op})

\* backup has returned nil
ReturnedNil == bpc = "returned" /\ ret = "nil"

\* C14: after backup returned nil, for a source that was not written
\* during the call, the database at the destination holds exactly the rows
\* of the source, for every content of the source and every page step >= 1.
C14_BackupCopiesSource ==
    ReturnedNil =>
        Content(Target(barg.dest.path)) = Content(Filename(barg.db))

\* a source of two rows or more was copied one page at a time
C14_Witness ==
    /\ ReturnedNil
    /\ barg.step = 1
    /\ Len(Content(Filename(barg.db))) >= 2
    /\ Count("step") >= 2

\* the session was started and no round of the loop failed
LoopSucceeded == Happened("start", TRUE) /\ ~Happened("step", FALSE)

\* C15 as claimed: when every step of the loop succeeded and bk.Finish
\* returned an error, backup returns a non-nil error.
C15_FinishErrorReturned ==
    bpc = "returned" /\ LoopSucceeded /\ Happened("finish", FALSE)
        => ret # "nil"

\* C16: when a step of the loop failed and bk.Finish failed too, backup
\* returns the error of the step, not that of Finish and not nil.
C16_LoopErrorWins ==
    bpc = "returned" /\ Happened("step", FALSE) /\ Happened("finish", FALSE)
        => ret = "step"

\* backup returned after a step failed in the second round and Finish
\* failed, the deferred function having overwritten the local err
C16_Witness ==
    /\ bpc = "returned"
    /\ Happened("step", TRUE)
    /\ Happened("step", FALSE)
    /\ Happened("finish", FALSE)
    /\ err = "finish"

\* C17 as claimed: when the registry has no entry for the path of the
\* source handle or of the destination handle, backup does not crash,
\* starts no session and returns an error.
C17_RegistryMissIsAnError ==
    bk.looked /\ (bk.from = Nil \/ bk.to = Nil) =>
        /\ bpc \notin {"panicking", "panicked"}
        /\ ~bk.started
        /\ bpc = "returned" => ret \notin {"nil", "none"}

\* C18: a session that was started is finished exactly once before backup
\* returns, on every exit path; Finish is never called twice, never before
\* the start, and not at all when the start failed.
C18_FinishExactlyOnce ==
    /\ Count("finish") <= 1
    /\ \A k \in 1..Len(events) :
           events[k].op = "finish" =>
               \E j \in 1..(k - 1) :
                   events[j].op = "start" /\ events[j].ok
    /\ bpc = "returned" =>
           Count("finish") = (IF Happened("start", TRUE) THEN 1 ELSE 0)

\* backup returned after a step error, the session finished once
C18_Witness ==
    /\ bpc = "returned"
    /\ Happened("step", FALSE)
    /\ Count("finish") = 1

\* C19: when the destination was opened its handle is closed exactly once
\* before backup returns, on every exit path, never twice and never
\* without an open; a session that was started is finished before the
\* handle is closed.
C19_CloseOnceAfterFinish ==
    /\ Count("close") <= 1
    /\ Count("close") = 1 => Happened("open", TRUE)
    /\ bpc = "returned" /\ Happened("open", TRUE) => Count("close") = 1
    /\ \A i, j \in 1..Len(events) :
           events[i].op = "close" /\ events[j].op = "finish" => j < i
    /\ Count("close") = 1 /\ Happened("start", TRUE) => Count("finish") = 1

\* backup returned nil, the session finished and then the handle closed
C19_Witness ==
    /\ ReturnedNil
    /\ Len(events) >= 2
    /\ events[Len(events) - 1].op = "finish"
    /\ events[Len(events)].op = "close"

\* C20 as claimed: whenever the copy session starts, the destination
\* database is empty, whatever was at the destination before the call.
C20_DestinationEmptyAtStart ==
    bk.started => bk.destAtStart = << >>

\* What does hold: the same, for a destination given as a plain path.
PlainDestinationEmptyAtStart ==
    bk.started /\ Plain(barg.dest) => bk.destAtStart = << >>

\* the directory of the destination, and the directory that one is in
DestDir == Target(Dir(barg.dest.path))

DestDirParent == Path(TRUE, Front(DestDir.segs))

\* backup was called with a destination whose directory did not exist
MissingDestDir ==
    bpc # "idle" /\ ~barg.dest.mem /\ DestDir \notin barg.dirs

\* backup fails on the destination: no session, and once it has returned
\* an error is its result and the registry has no entry for the path
DestinationRefused ==
    /\ ~bk.started
    /\ bpc = "returned" =>
           /\ ret \notin {"nil", "none"}
           /\ Target(barg.dest.path) \notin DOMAIN registry

\* C21 as claimed: for every destination whose parent directory does not
\* exist when backup is called, backup returns an error, starts no session
\* and leaves no registry entry for the destination.
C21_MissingDirFails == MissingDestDir => DestinationRefused

\* C21 amended: the same for every destination whose parent directory does
\* not exist and cannot be made by one os.Mkdir, the directory above it
\* missing too; a single missing directory is made by open.
C21_UnmakeableDirFails ==
    MissingDestDir /\ DestDirParent \notin barg.dirs => DestinationRefused

\* backup to "x/y/g" has returned the error of Open
C21_Witness ==
    /\ bpc = "returned"
    /\ MissingDestDir
    /\ DestDirParent \notin barg.dirs
    /\ ret = "open"
    /\ events = << >>

\* C22: in the trace of the loop every step directly follows a progress
\* record and every progress record is directly followed by a step: one of
\* each to a round; a step copies at most pageStep pages; no progress
\* record and no step follows the first step that reported done or an
\* error, and the loop is left only after such a step.
C22_OneRecordOneStepPerRound ==
    /\ \A k \in 1..Len(events) :
           /\ events[k].op = "step" =>
                  /\ k > 1 /\ events[k - 1].op = "progress"
                  /\ barg.step >= 0 => events[k].n <= barg.step
                  /\ events[k].done \/ ~events[k].ok =>
                         \A j \in (k + 1)..Len(events) :
                             events[j].op \notin {"progress", "step"}
           /\ events[k].op = "progress" /\ k < Len(events) =>
                  events[k + 1].op = "step"
    /\ bpc \in {"Defers", "returned"} /\ bk.started =>
           \E k \in 1..Len(events) :
               events[k].op = "step" /\ (events[k].done \/ ~events[k].ok)

\* a loop of two rounds, the second step reporting done
C22_Witness ==
    /\ bpc = "returned"
    /\ Count("progress") = 2
    /\ Count("step") = 2
    /\ \E k \in 1..Len(events) :
           /\ events[k].op = "step" /\ ~events[k].done
           /\ events[k + 1].op = "progress"
           /\ events[k + 2].op = "step" /\ events[k + 2].done

\* N pages at step to a round: the rounds needed
Ceil(N, step) == (N + step - 1) \div step

\* C23 as claimed: for every page step, the loop once entered is left and
\* backup returns; with a page step >= 1 and N >= 1 source pages it makes
\* at most ceil(N / pageStep) steps.
C23_BackupTerminates ==
    /\ [](bk.started /\ barg.step >= 1 /\ bk.total >= 1 =>
             Count("step") <= Ceil(bk.total, barg.step))
    /\ (bpc = "Loop") ~> (bpc = "returned")

\* What does hold: the loop is left for every page step other than 0.
BackupTerminatesForNonZeroStep ==
    (bpc = "Loop" /\ barg.step # 0) ~> (bpc = "returned")

\* the number of steps stays within ceil(N / pageStep), N >= 1
StepsWithinCeil ==
    bk.started /\ barg.step >= 1 /\ bk.total >= 1 =>
        Count("step") <= Ceil(bk.total, barg.step)

\* the task holds Server.mu, as the writer or as a reader
HoldsMu(t) == mu.w = t \/ t \in mu.readers

\* C24 as claimed: no task holds the registry mutex while it holds the
\* Server's readers-writer lock, also when Exec or Stream makes the pool
\* establish a new physical connection and run the connect hook.
C24_RegistryLockNotNested == \A t \in Tasks : rmu = t => ~HoldsMu(t)

\* The same with the handle's first connection set apart: it fails too,
\* for the connection a second concurrent Stream makes the pool establish.
NotNestedOncePooled ==
    \A t \in Tasks : rmu = t /\ physical > 1 => ~HoldsMu(t)

\* the latest recorded Open was given a path at which it found neither a
\* file nor a directory
OpenedMissing ==
    /\ lastOpen # << >>
    /\ ~lastOpen[1].dsn.mem
    /\ Target(lastOpen[1].dsn.path) \notin lastOpen[1].files \cup lastOpen[1].dirs

\* ... and returned an error, made no file and no connection and left the
\* registry as it was
OpenRefused ==
    /\ lastOpen[1].err # "nil"
    /\ files = lastOpen[1].files
    /\ Len(conns) = lastOpen[1].conns
    /\ registry = lastOpen[1].registry

\* ... and made the file and returned a handle whose connection is open
OpenCreated ==
    /\ lastOpen[1].err = "nil"
    /\ Target(lastOpen[1].dsn.path) \in files
    /\ Len(conns) = lastOpen[1].conns + 1
    /\ conns[Len(conns)].file = Target(lastOpen[1].dsn.path)
    /\ ~conns[Len(conns)].failed

Creatable ==
    LET dir == Target(Dir(lastOpen[1].dsn.path))
    IN  /\ dir \in lastOpen[1].dirs \/ Path(TRUE, Front(dir.segs)) \in lastOpen[1].dirs
        /\ ~(lastOpen[1].dsn.uri /\ lastOpen[1].dsn.slashes /\ ~lastOpen[1].dsn.path.abs)
        /\ lastOpen[1].pathOk

C30_PlainOpenUsesDefaultDriver ==
    \A i \in 1..Len(conns) :
        conns[i].given = "" =>
            /\ conns[i].driver = DefaultDriver
            /\ DefaultDriver \in conns[i].known =>
                   conns[i].steps =
                       ConnectHook(sqlDrivers[DefaultDriver], conns[i].pathOk)

\* The second half alone, which fails as well: the connection of a plain
\* Open made after sqlInit(DefaultDriver, ...) ran that configuration.
PriorDefaultInitGoverns ==
    \A i \in 1..Len(conns) :
        conns[i].given = "" /\ DefaultDriver \in conns[i].known =>
            conns[i].steps =
                ConnectHook(sqlDrivers[DefaultDriver], conns[i].pathOk)

\* rows.Next fails before fn does, at a row the result has
NextFailsFirst ==
    /\ qarg.nextErr # Never
    /\ qarg.nextErr <= qarg.n
    /\ qarg.fnErr = Never \/ qarg.nextErr <= qarg.fnErr + 1

\* fn fails at an index the result has, rows.Next not before it
FnFails ==
    /\ qarg.fnErr # Never
    /\ qarg.fnErr < qarg.n
    /\ ~NextFailsFirst

\* C26: fn is called once for each row, in the order of the result, with
\* the indices 0, 1, 2, ... and the column names; connQuery stops at the
\* first error of fn and returns it, no later row fetched; it returns nil
\* when the rows are exhausted; when the query fails it returns the
\* query's error and fn is not called.
C26_CallbackPerRowInOrder ==
    /\ \A k \in 1..Len(qcalls) :
           /\ qcalls[k].cnt = k - 1
           /\ qcalls[k].row = k
           /\ qcalls[k].cols = Columns
    /\ qpc = "returned" =>
           IF ~qarg.ok THEN qret = "query" /\ qcalls = << >>
           ELSE IF FnFails
           THEN /\ qret = "fn"
                /\ Len(qcalls) = qarg.fnErr + 1
                /\ qfetched = qarg.fnErr + 1
           ELSE IF NextFailsFirst
           THEN qret = "next" /\ Len(qcalls) = qarg.nextErr - 1
           ELSE qret = "nil" /\ Len(qcalls) = qarg.n

\* fn failed at the first of several rows: one call, one row fetched
C26_Witness ==
    /\ qpc = "returned"
    /\ qarg.ok
    /\ qarg.n > 1
    /\ qret = "fn"
    /\ Len(qcalls) = 1
    /\ qfetched = 1
    /\ qclosed = 1

\* the words that stand for a statement; the ones inside the trigger of
\* the test are part of the CREATE TRIGGER statement
StatementWords == {"create", "select", "insert", "bad", "CREATE TRIGGER"}

\* the statements of a text, in its order
RECURSIVE StatementsIn(_)
StatementsIn(text) ==
    IF text = << >> THEN << >>
    ELSE IF Head(text) \in StatementWords
    THEN <<Head(text)>> \o StatementsIn(Tail(text))
    ELSE StatementsIn(Tail(text))

\* the statements a client reading the buffer meets, in order: its own
\* and, at a .read of a file that is there, the file's
RECURSIVE StatementsOf(_)
StatementsOf(buffer) ==
    IF buffer = << >> THEN << >>
    ELSE IF Head(buffer) \in StatementWords
    THEN <<Head(buffer)>> \o StatementsOf(Tail(buffer))
    ELSE IF /\ HasDirective(buffer, ".read")
            /\ Len(buffer) >= 3
            /\ <<buffer[3]>> \in DOMAIN Files
    THEN StatementsIn(Files[<<buffer[3]>>]) \o StatementsOf(Tail(buffer))
    ELSE StatementsOf(Tail(buffer))

\* the statements of the texts that were submitted, in order
RECURSIVE SubmittedIn(_)
SubmittedIn(out) ==
    IF out = << >> THEN << >>
    ELSE IF Head(out).op \in {"exec", "table"}
    THEN StatementsIn(Head(out).text) \o SubmittedIn(Tail(out))
    ELSE SubmittedIn(Tail(out))

\* Commands has returned
CommandsDone == cret \notin {"none", "running"}

\* C27 as claimed: when Commands returns nil, the statements of the buffer
\* have been submitted to the database, each once and in the order of the
\* buffer, whatever the newlines and the dot-directives between them.
C27_EveryStatementSubmittedOnce ==
    cret = "nil" => SubmittedIn(cout) = StatementsOf(carg.buffer)

\* What does hold: the same for buffers of statements that each end in
\* ";\n", with no directive between them.
OnlyLines ==
    \A i \in 1..Len(carg.buffer) :
        /\ carg.buffer[i] \in {"create", "select", ";", "\n"}
        /\ carg.buffer[i] = ";" => i < Len(carg.buffer) /\ carg.buffer[i + 1] = "\n"

StatementLinesSubmittedOnce ==
    CommandsDone /\ OnlyLines =>
        cret = "nil" /\ SubmittedIn(cout) = StatementsOf(carg.buffer)

\* the buffer holds something that fails: a statement the database
\* rejects, a .read of a file that is missing or whose commands fail, or
\* .tables on a database on which it fails
HoldsFailure ==
    \E i \in 1..Len(carg.buffer) :
        \/ carg.buffer[i] = "bad"
        \/ carg.buffer[i] \in {"bad.sql", "none.sql"}
        \/ carg.buffer[i] = ".tables" /\ ~carg.tablesOk

\* C28 as claimed: Commands returns an error whenever its buffer holds
\* something that fails, and nothing is submitted after a text the
\* database rejected.
C28_FailureIsReported ==
    CommandsDone =>
        /\ HoldsFailure => cret # "nil"
        /\ \A k \in 1..(Len(cout) - 1) :
               ~(cout[k].op \in {"exec", "table"} /\ Rejected(cout[k].text))

\* What does hold: a text that was submitted and rejected ends the call
\* with an error.
RejectedTextEndsCall ==
    CommandsDone =>
        \A k \in 1..Len(cout) :
            cout[k].op \in {"exec", "table"} /\ Rejected(cout[k].text) =>
                k = Len(cout) /\ cret # "nil"

\* a text is a trigger block and nothing else: from CREATE TRIGGER to END
IsBlock(text) ==
    /\ startsWith(text, <<"CREATE TRIGGER">>)
    /\ StatementsIn(text) = <<"CREATE TRIGGER">>
    /\ \E i \in 1..Len(text) : text[i] = "END"

\* C29 as claimed: when Commands returns nil, every CREATE TRIGGER block
\* of the buffer was put together again and executed once, as one
\* statement, and trigger mode is off.
C29_TriggerExecutedOnce ==
    cret = "nil" =>
        /\ Cardinality({k \in 1..Len(cout) :
                            cout[k].op = "exec" /\ IsBlock(cout[k].text)})
               = Cardinality({i \in 1..Len(carg.buffer) :
                                 carg.buffer[i] = "CREATE TRIGGER"})
        /\ ~ctrigger

(***************************************************************************)
(* Claims about the IPv4 conversions.                                      *)
(***************************************************************************)
\* a decimal octet 0..255 written without leading zeros
OctetText(t) ==
    /\ Len(t) \in 1..3
    /\ \A i \in 1..Len(t) : IsDigit(t[i])
    /\ Len(t) > 1 => t[1] # "0"
    /\ DigitsValue(t) <= 255

\* four of them, separated by dots
DottedQuad(s) ==
    LET parts == SplitDots(s)
    IN  Len(parts) = 4 /\ \A i \in 1..4 : OctetText(parts[i])

\* an int64 in 0..2^32-1
InAddressRange(n) == n.hi \in 0..(Half - 1) /\ n.lo \in 0..(Half - 1)

\* C31: the conversions are inverse to each other: fromIPv4(toIPv4(n)) = n
\* for every n in 0..2^32-1, and toIPv4(fromIPv4(s)) = s for every dotted
\* quad s of four decimal octets 0..255 written without leading zeros.
C31_ConversionsAreInverse ==
    \A i \in 1..Len(ipcalls) :
        LET c == ipcalls[i]
        IN  /\ (c.fn = "iptoa" /\ InAddressRange(c.arg)) => c.back = c.arg
            /\ (c.fn = "atoip" /\ DottedQuad(c.arg)) => c.back = c.arg

\* 127.0.0.1 has been converted to 2130706433 and back
C31_Witness ==
    \E i \in 1..Len(ipcalls) :
        /\ ipcalls[i].fn = "atoip"
        /\ ipcalls[i].arg = <<"1", "2", "7", ".", "0", ".", "0", ".", "1">>
        /\ ipcalls[i].out = Int64(32512, 1)
        /\ ipcalls[i].back = ipcalls[i].arg

\* the number 192.168.255.255 stands for has been written and read back
IptoaRoundTrip ==
    \E i \in 1..Len(ipcalls) :
        /\ ipcalls[i].fn = "iptoa"
        /\ ipcalls[i].arg = Int64(49320, 65535)
        /\ ipcalls[i].out = <<"1", "9", "2", ".", "1", "6", "8", ".",
                              "2", "5", "5", ".", "2", "5", "5">>
        /\ ipcalls[i].back = ipcalls[i].arg

\* C32: fromIPv4 returns -1 for every input that is not exactly four
\* dot-separated parts, and for every four-part input a value in
\* 0..2^32-1, never the -1 sentinel.
C32_SentinelMeansWrongShape ==
    \A i \in 1..Len(ipcalls) :
        LET c == ipcalls[i]
        IN  c.fn = "atoip" =>
                IF Len(SplitDots(c.arg)) # 4
                THEN c.out = MinusOne
                ELSE InAddressRange(c.out)

\* the first half of C32 alone
WrongShapeGivesSentinel ==
    \A i \in 1..Len(ipcalls) :
        (ipcalls[i].fn = "atoip" /\ Len(SplitDots(ipcalls[i].arg)) # 4)
            => ipcalls[i].out = MinusOne

\* a four-part input may still give the sentinel only if a part is no octet
FourOctetsGiveAddress ==
    \A i \in 1..Len(ipcalls) :
        (ipcalls[i].fn = "atoip" /\ DottedQuad(ipcalls[i].arg))
            => InAddressRange(ipcalls[i].out)

(***************************************************************************)
(* Claims about the locks together.                                        *)
(***************************************************************************)
\* the task is inside the ConnectHook
InHook(t) == held[t] \in {"register", "insert"}

\* the task waits for a lock, or is about to ask for one
AtLock(t) ==
    \/ pc[t] \in {"Lock", "Drain", "RLock", "RWait"}
    \/ ipc[t] = "Lock"
    \/ held[t] = "register"

\* the task is inside a database call
InDbCall(t) == held[t] = "conn" /\ pc[t] \in {"Exec", "Query", "Callback"}

\* the tasks whose release a blocked task waits for
WaitsFor(t) ==
    (IF held[t] = "register" /\ rmu # NoTask THEN {rmu} ELSE {})
        \cup (IF ipc[t] = "Lock" /\ imu # NoTask THEN {imu} ELSE {})
        \cup (IF pc[t] = "Lock" /\ mu.w # NoTask THEN {mu.w} ELSE {})
        \cup (IF pc[t] = "Drain" THEN mu.readers ELSE {})
        \cup (IF pc[t] \in {"RLock", "RWait"} /\ mu.w # NoTask THEN {mu.w} ELSE {})

RECURSIVE Reaches(_, _)
\* the tasks reached from the tasks in from along at most n waits
Reaches(from, n) ==
    IF n = 0 THEN from
    ELSE Reaches(from \cup UNION {WaitsFor(u) : u \in from}, n - 1)

\* a task waits, through others, for itself
WaitCycle == \E t \in Tasks : t \in Reaches(WaitsFor(t), NTasks)

\* C33: the registry mutex and the initializer mutex are held only across
\* their own table operation: the holder of rmu asks for no other lock and
\* is in no database call, the connect hook does not run in a task that
\* holds imu, and no cycle of lock waits arises among rmu, imu and s.mu.
C33_LeafLocks ==
    /\ \A t \in Tasks :
          rmu = t => /\ held[t] = "insert"
                     /\ pc[t] \notin {"Lock", "Drain", "RLock", "RWait"}
                     /\ ipc[t] # "Lock"
                     /\ ~InDbCall(t)
    /\ \A t \in Tasks :
          imu = t => /\ ~InHook(t)
                     /\ ipc[t] \in {"Check", "Register", "Unlock"}
                     /\ pc[t] = "idle"
    /\ ~WaitCycle

\* a task of the Server waits under s.mu for rmu, which a task that has
\* been through sqlInit holds inside the hook of open's connection, while
\* a third task waits for s.mu
C33_Witness ==
    \E t, u \in Tasks :
        /\ t # u
        /\ pc[t] \in {"Exec", "Query"}
        /\ held[t] = "register"
        /\ rmu = u
        /\ ipc[u] = "Ping"
        /\ \E v \in Tasks : t \in WaitsFor(v) /\ pc[v] \in {"Lock", "Drain", "RWait"}

(***************************************************************************)
(* Claims about a row callback that calls Exec.                            *)
(***************************************************************************)
\* positions of a call that has not come to hold the lock
NotHolding == {"Lock", "Drain", "RLock", "RWait"}

\* the Exec of a row callback has been called while the writer side is
\* owned: by that Exec itself, or by an Exec that waits for the readers
Wedged == nested # {} /\ mu.w # NoTask

\* C34: an Exec called by a row callback of a Stream on the same Server
\* never comes to hold the lock: it waits for the shared access its own
\* Stream holds, so neither call returns; and every Exec and Stream called
\* after it has asked for the lock stays blocked as well.
C34_NestedExecBlocksForever ==
    /\ [](\A t \in nested : pc[t] \in {"Lock", "Drain"} /\ t \in mu.readers)
    /\ [][ /\ nested \subseteq nested'
           /\ Wedged =>
                 /\ Wedged'
                 /\ \A u \in Tasks :
                       /\ pc[u] \in NotHolding => pc'[u] \in NotHolding
                       /\ pc[u] = "idle" => pc'[u] \in NotHolding \cup {"idle"}
         ]_vars

\* the Exec of task t's callback owns the writer side and waits for t's own
\* shared access; a later Stream waits behind it and a later Exec as well
C34_Witness ==
    \E t \in nested :
        /\ mu.w = t
        /\ pc[t] = "Drain"
        /\ mu.readers = {t}
        /\ \E u, v \in Tasks \ {t} : pc[u] = "RWait" /\ pc[v] = "Lock"

(***************************************************************************)
(* Claims about closed handles and the registry.                           *)
(***************************************************************************)
\* the key under which the hook of connection h called register
RegistryKey(h) == Abs(conns[h].file, TRUE)

\* the hook of connection h came to its call of register
ReachedRegister(h) == \E k \in 1..Len(conns[h].steps) : conns[h].steps[k].op = "register"

\* C35: no operation removes a registry entry: the key set only grows, an
\* entry changes only when a new connection to that path takes it over,
\* and a lookup of a closed handle's path returns the closed connection
\* until a later connection to the same path has overwritten the entry.
C35_EntriesOutliveTheirHandle ==
    /\ [][\A p \in DOMAIN registry :
             /\ p \in DOMAIN registry'
             /\ registry'[p] # registry[p] =>
                   /\ Len(conns') = Len(conns) + 1
                   /\ registry'[p] = Len(conns')
                   /\ Abs(conns'[Len(conns')].file, TRUE) = p
         ]_vars
    /\ [](\A h \in closed :
             ReachedRegister(h) =>
                 /\ RegistryKey(h) \in DOMAIN registry
                 /\ \/ registry[RegistryKey(h)] = h
                    \/ /\ registry[RegistryKey(h)] > h
                       /\ RegistryKey(registry[RegistryKey(h)]) = RegistryKey(h))

\* a handle closed by Close and the destination handle closed by backup are
\* both still what a lookup of their paths returns
C35_Witness ==
    /\ bpc = "returned"
    /\ destDb \in closed
    /\ \E k \in 1..Len(events) : events[k].op = "close"
    /\ registered(RegistryKey(destDb)) = destDb
    /\ \E h \in closed : h # destDb /\ registered(RegistryKey(h)) = h

(***************************************************************************)
(* Claims about a connection whose hook fails.                             *)
(***************************************************************************)
\* the hook of connection c failed at the startup query or the user hook
FailedAtQueryOrHook(c) ==
    /\ c.steps # << >>
    /\ c.steps[Len(c.steps)].op \in {"query", "hook"}
    /\ ~c.steps[Len(c.steps)].ok

\* C36: when the startup query or the user hook fails for a new
\* connection, its registry entry has been written before and is not rolled
\* back: the registry maps the path to the connection that failed, whatever
\* it mapped the path to before, until a later connection to the path is
\* registered.
C36_FailedConnectionStaysRegistered ==
    \A i \in 1..Len(conns) :
        (/\ FailedAtQueryOrHook(conns[i])
         /\ \A j \in (i + 1)..Len(conns) :
               ~(ReachedRegister(j) /\ RegistryKey(j) = RegistryKey(i)))
          => /\ RegistryKey(i) \in DOMAIN registry
             /\ registry[RegistryKey(i)] = i

\* the second connection to a path failed at its query or hook and has
\* taken the entry of the first, which had not failed
C36_Witness ==
    /\ Len(conns) = 2
    /\ ~conns[1].failed
    /\ ReachedRegister(1)
    /\ FailedAtQueryOrHook(conns[2])
    /\ RegistryKey(1) = RegistryKey(2)
    /\ registered(RegistryKey(2)) = 2

\* the configuration fails on every connection: a function that cannot be
\* bound, a startup query that is no SQL, or a hook that returns an error
FailsAlways(cfg) ==
    \/ \E k \in 1..Len(cfg.funcs) : cfg.funcs[k] = "badfunc"
    \/ cfg.query = "bad sql"
    \/ cfg.hook = "badhook"

\* C39: a driver name whose first initialisation carried a configuration
\* that fails on every connection never yields a successful connection:
\* every Open under that name fails, whatever configuration it passes.
C39_BadFirstInitIsForGood ==
    \A i \in 1..Len(conns) :
        FailsAlways(firstCfg[conns[i].driver]) => conns[i].failed

\* a second Open under the name, after a call that gave the name another
\* configuration than the failing first one, has failed as well
C39_Witness ==
    /\ Len(conns) = 2
    /\ conns[1].driver = conns[2].driver
    /\ conns[1].pathOk /\ conns[2].pathOk
    /\ FailsAlways(firstCfg[conns[2].driver])
    /\ conns[2].re
    /\ conns[1].failed /\ conns[2].failed

(***************************************************************************)
(* Claims about the connections of a backup session.                       *)
(***************************************************************************)
\* C37: the two native connections a backup session copies between belong
\* to the handles of that call: the source connection is a live connection
\* of the source handle passed in, the destination connection the one the
\* call opened.
C37_SessionBetweenOwnHandles ==
    bk.started =>
        /\ bk.from = barg.db
        /\ bk.from \notin closed
        /\ bk.to = destDb

\* the destination side alone: it is the connection the call opened
DestinationIsOwn == bk.started => bk.to = destDb

\* the source connection of a session is at least not a closed one
SourceIsLive == bk.started => bk.from \notin closed

\* the destination of the call in progress names the file of its source
OntoItself ==
    /\ bpc # "idle"
    /\ Plain(barg.dest)
    /\ Target(barg.dest.path) = Filename(barg.db)

\* to.Backup has been called
StartAttempted == \E k \in 1..Len(events) : events[k].op = "start"

=============================================================================
